---------------------------- MODULE Spec2Model ----------------------------
(***************************************************************************)
(* Substack2Markdown: the discovery engine (scraper.py get_all_posts), the *)
(* fetch-with-retry of browser.py get_page, and the batch driver of        *)
(* main.py (download_all_posts and main), as state machines; the naming   *)
(* of documents (generate_filename, get_downloaded_posts), the image       *)
(* handling of one MarkdownConverter and the metadata header of            *)
(* converter.py, on texts written character by character; and startup      *)
(* (config.py, main), the url and slug of discovered Posts, the paginated   *)
(* listing, get_post_content with _update_post_metadata,                    *)
(* _postprocess_markdown and the catalog metadata record.                   *)
(*                                                                         *)
(* A datetime is a record [set, t, aware]: set says whether the Optional   *)
(* holds a value, t is the instant, aware whether the value carries a      *)
(* timezone.  Python refuses to order a naive and an aware datetime        *)
(* (TypeError), so every ordering comparison below is partial.             *)
(***************************************************************************)
EXTENDS Integers, Sequences, FiniteSets, TLC

VARIABLES
    config,        \* the Config fields read by the modelled code
    dpc,           \* position inside get_all_posts
    calls,         \* discovery strategies invoked so far, in call order
    found,         \* locals api_posts / archive_posts / sitemap_posts
    posts,         \* local posts of get_all_posts
    unique_posts,  \* local unique_posts of get_all_posts
    catalog        \* filtered_posts, the value get_all_posts returns

dvars == <<dpc, calls, found, posts, unique_posts, catalog>>

VARIABLES
    max_retries,   \* config.max_retries
    gpc,           \* "call" while get_page is running, "returned" afterwards
    retry,         \* the retry argument of the running get_page invocation
    loads,         \* self.driver.get(url) calls made by this get_page call
    waits,         \* the time.sleep(wait_time) backoff sleeps, in order
    outcomes,      \* what each page load met, in order
    page           \* the value get_page returned

gvars == <<max_retries, gpc, retry, loads, waits, outcomes, page>>

VARIABLES
    args,          \* resume, limit_given and limit (--limit), no_images
    mpc,           \* position inside main and download_all_posts
    mposts,        \* main's posts; download_all_posts iterates a prefix of it
    idx,           \* number of entries the for loop has finished with
    visited,       \* URLs of the entries whose loop body has started
    events,        \* how the loop body of each finished entry ended
    existing,      \* local existing of download_all_posts
    downloaded,    \* local downloaded of download_all_posts
    failed,        \* local failed
    skipped,       \* local skipped
    disk,          \* posts_dir: file name -> document
    returned,      \* the tuple download_all_posts returned
    metadata,      \* metadata.json
    summary,       \* the Download Complete panel
    interrupt      \* what held when a KeyboardInterrupt reached the loop

bvars == <<args, mpc, mposts, idx, visited, events, existing, downloaded, failed,
           skipped, disk, returned, metadata, summary, interrupt>>

VARIABLES
    npc,           \* "generate", "scan" or "done": a document is named, then found
    npost,         \* the Post generate_filename is called with
    nfiles,        \* the names of the *.md files of posts_dir
    nname,         \* the value generate_filename returned
    nkeys          \* the Resume Set get_downloaded_posts returned

nvars == <<npc, npost, nfiles, nname, nkeys>>

VARIABLES
    ipc,           \* position of the converter between and inside its calls
    dl_enabled,    \* config.download_images
    content,       \* the PostContent: post, html_content, markdown_content, images
    loop,          \* download_images: images seen, local images, requests made
    _image_map,    \* MarkdownConverter._image_map: source URL -> local filename
    downloads,     \* per source URL, the downloads that have succeeded
    returns,       \* the values convert returned for this PostContent, in order
    document       \* the document written for this PostContent

ivars == <<ipc, dl_enabled, content, loop, _image_map, downloads, returns, document>>

VARIABLES
    hpc,           \* "call" before _add_frontmatter has run, "returned" after
    hpost,         \* the Post _add_frontmatter is called with
    header         \* the text _add_frontmatter returned for an empty md

hvars == <<hpc, hpost, header>>

VARIABLES
    environ,       \* os.environ after load_dotenv
    spc,           \* position inside main up to the call of get_all_posts
    printed,       \* the warnings and Configuration error lines printed
    trail,         \* what main has started after validation, in order
    exit_code      \* the argument of sys.exit, -1 while main has not exited

svars == <<environ, spc, printed, trail, exit_code>>

VARIABLES
    made,          \* the Posts the discovery strategies have created, in order
    dropped        \* the links and sitemap entries no Post was created for

lvars == <<made, dropped>>

VARIABLES
    apc,           \* position inside _get_posts_from_api
    offset,        \* local offset
    api_posts,     \* local posts of _get_posts_from_api: <<offset, index>> pairs
    requests,      \* the offsets of the listing pages requested, in order
    served,        \* what the source answered to each request, in order
    api_returned   \* the list _get_posts_from_api returned

avars == <<apc, offset, api_posts, requests, served, api_returned>>

VARIABLES
    cpc,           \* position inside get_post_content
    ccall,         \* the Post as passed in, and the page that get_page gives
    cpost,         \* the Post object get_post_content was called with
    content_elem,  \* local content_elem: "None" or the selector that found it
    creturned      \* the value get_post_content returned

cvars == <<cpc, ccall, cpost, content_elem, creturned>>

VARIABLES
    ppc,           \* "call" before _postprocess_markdown has run, "returned" after
    markdown,      \* local md of convert: the text markdownify returned
    processed      \* the text _postprocess_markdown returned

pvars == <<ppc, markdown, processed>>

\* the variables of startup and of the single steps of scraper and converter
rvars == <<svars, lvars, avars, cvars, pvars>>

vars == <<config, dvars, gvars, bvars, nvars, ivars, hvars, rvars>>

-----------------------------------------------------------------------------
(* Bounds of the model *)

\* longest list one discovery strategy hands back
MaxLen == 2

\* largest MAX_RETRIES setting
MaxRetries == 3

\* longest list of entries discovery hands to a batch run
MaxCatalog == 3

\* largest --limit
MaxLimit == 2

\* longest slug or title generate_filename is given, the padding not counted
MaxText == 3

Urls == {"u1", "u2", "u3"}
Times == {1, 2}

-----------------------------------------------------------------------------
(* Values *)

Range(s) == {s[i] : i \in 1..Len(s)}

\* Optional[datetime] = None
NoDate == [set |-> FALSE, t |-> 0, aware |-> FALSE]

\* datetime.min, a naive datetime below every date of the model
DatetimeMin == [set |-> TRUE, t |-> 0, aware |-> FALSE]

Naive(t) == [set |-> TRUE, t |-> t, aware |-> FALSE]
Aware(t) == [set |-> TRUE, t |-> t, aware |-> TRUE]

\* datetime.fromisoformat(s.replace('Z', '+00:00')): aware when the text
\* carries a zone ("...Z", "...+00:00"), naive otherwise; None when it fails
ParsedDates == {NoDate} \cup {Naive(t) : t \in Times} \cup {Aware(t) : t \in Times}

\* get_date: datetime.strptime(value, '%Y-%m-%d') is always naive; a missing or
\* malformed value gives None
get_date == {NoDate} \cup {Naive(t) : t \in Times}

\* the slug of the article at a URL, as its characters:
\* url = f"{substack_url}/p/{slug}".  The slugs of u2 and u4 differ in one
\* character that generate_filename turns into the same hyphen.
SlugOf(url) ==
    CASE url = "u1" -> <<"a">>
      [] url = "u2" -> <<"b", "-", "c">>
      [] url = "u3" -> <<"x", "-", "y", "-", "a">>
      [] OTHER -> <<"b", "_", "c">>

Post(url, date, is_paid) ==
    [url |-> url, slug |-> SlugOf(url), date |-> date, is_paid |-> is_paid]

\* a Post built by _parse_api_post
ApiPosts == {Post(u, d, p) : u \in Urls, d \in ParsedDates, p \in BOOLEAN}

\* a Post built by _parse_archive_post
ArchivePosts == {Post(u, d, p) : u \in Urls, d \in ParsedDates, p \in BOOLEAN}

\* a Post built by _get_posts_from_sitemap: is_paid keeps its default
SitemapPosts == {Post(u, d, FALSE) : u \in Urls, d \in ParsedDates}

SeqsUpTo(S, n) == UNION {[1..k -> S] : k \in 0..n}

-----------------------------------------------------------------------------
(* scraper.py: the merge stage of get_all_posts *)

\* a deduplication that lets a later entry replace an earlier one
RECURSIVE DedupKeepLast(_)
DedupKeepLast(ps) ==
    IF ps = <<>> THEN <<>>
    ELSE IF \E i \in 2..Len(ps) : ps[i].url = Head(ps).url
         THEN DedupKeepLast(Tail(ps))
         ELSE <<Head(ps)>> \o DedupKeepLast(Tail(ps))

\* for post in posts: if post.url not in seen_urls: ... unique_posts.append(post)
RECURSIVE DedupByUrl(_)
DedupByUrl(ps) ==
    IF ps = <<>> THEN <<>>
    ELSE LET init == DedupByUrl(SubSeq(ps, 1, Len(ps) - 1))
             post == ps[Len(ps)]
         IN  IF post.url \notin {q.url : q \in Range(init)}
             THEN Append(init, post)
             ELSE init

\* _get_posts_from_archive: if post and post.url not in [p.url for p in posts]
RECURSIVE ArchiveCollect(_)
ArchiveCollect(elems) ==
    IF elems = <<>> THEN <<>>
    ELSE LET init == ArchiveCollect(SubSeq(elems, 1, Len(elems) - 1))
             post == elems[Len(elems)]
         IN  IF post.url \notin {q.url : q \in Range(init)}
             THEN Append(init, post)
             ELSE init

\* key=lambda p: p.date or datetime.min
SortKey(p) == IF p.date.set THEN p.date ELSE DatetimeMin

\* list.sort orders the keys with <, which raises TypeError between a naive
\* and an aware datetime; a comparison sort of a list holding both kinds of
\* key has to compare one of each
SortRaises(ps) ==
    \E i, j \in 1..Len(ps) : SortKey(ps[i]).aware # SortKey(ps[j]).aware

Reverse(s) == [i \in 1..Len(s) |-> s[Len(s) + 1 - i]]

\* stable insertion: x goes behind every element whose key is not larger
RECURSIVE InsertAsc(_, _)
InsertAsc(x, s) ==
    IF s = <<>> THEN <<x>>
    ELSE IF SortKey(x).t < SortKey(Head(s)).t
         THEN <<x>> \o s
         ELSE <<Head(s)>> \o InsertAsc(x, Tail(s))

RECURSIVE SortAsc(_)
SortAsc(s) ==
    IF s = <<>> THEN <<>>
    ELSE InsertAsc(s[Len(s)], SortAsc(SubSeq(s, 1, Len(s) - 1)))

\* unique_posts.sort(key=..., reverse=True): CPython reverses, sorts stably in
\* ascending order and reverses again, so equal keys keep their order
SortPosts(ps) == Reverse(SortAsc(Reverse(ps)))

\* p.date >= bound / p.date <= bound raise TypeError when one side is aware
\* and the other is naive
CmpRaises(a, b) == a.aware # b.aware

\* the comprehension of one date filter evaluates the comparison for every
\* dated entry of its input
FilterRaises(ps, bound) ==
    bound.set /\ \E i \in 1..Len(ps) : ps[i].date.set /\ CmpRaises(ps[i].date, bound)

KeepFrom(ps, start) ==
    IF start.set
    THEN SelectSeq(ps, LAMBDA p : ~p.date.set \/ p.date.t >= start.t)
    ELSE ps

KeepUntil(ps, end) ==
    IF end.set
    THEN SelectSeq(ps, LAMBDA p : ~p.date.set \/ p.date.t <= end.t)
    ELSE ps

KeepPaid(ps, paid_only) ==
    IF paid_only THEN SelectSeq(ps, LAMBDA p : p.is_paid) ELSE ps

\* _apply_filters: [raised, value]
_apply_filters(ps, cfg) ==
    IF FilterRaises(ps, cfg.start_date)
    THEN [raised |-> TRUE, value |-> <<>>]
    ELSE LET f1 == KeepFrom(ps, cfg.start_date)
         IN  IF FilterRaises(f1, cfg.end_date)
             THEN [raised |-> TRUE, value |-> <<>>]
             ELSE [raised |-> FALSE,
                   value |-> KeepPaid(KeepUntil(f1, cfg.end_date), cfg.paid_only)]

-----------------------------------------------------------------------------
(* scraper.py: get_all_posts, one action per strategy call and merge step *)

NoFilters == [start_date |-> NoDate, end_date |-> NoDate, paid_only |-> FALSE]

\* the START_DATE / END_DATE / PAID_ONLY settings a run is started with
RunConfigs ==
    {NoFilters,
     [start_date |-> Naive(2), end_date |-> NoDate, paid_only |-> FALSE],
     [start_date |-> Naive(1), end_date |-> Naive(1), paid_only |-> TRUE]}

NotCalled == [api |-> <<>>, archive |-> <<>>, sitemap |-> <<>>]

DiscoverStart ==
    /\ dpc = "api"
    /\ calls = <<>>
    /\ found = NotCalled
    /\ posts = <<>>
    /\ unique_posts = <<>>
    /\ catalog = <<>>

\* a fallback that is tried whatever was found before
NeedsFallbackAlways(ps) == TRUE

\* "if not posts:", the guard of both fallback strategies
NeedsFallback(ps) == ps = <<>>

\* Method 1: api_posts = self._get_posts_from_api(); if api_posts: posts.extend
GetPostsFromApi ==
    /\ dpc = "api"
    /\ \E out \in SeqsUpTo(ApiPosts, MaxLen) :
          /\ found' = [found EXCEPT !.api = out]
          /\ posts' = posts \o out
    /\ dpc' = "archive"
    /\ calls' = Append(calls, "api")
    /\ UNCHANGED <<config, rvars, nvars, ivars, hvars, gvars, bvars, unique_posts, catalog>>

\* Method 2: if not posts: archive_posts = self._get_posts_from_archive()
GetPostsFromArchive ==
    /\ dpc = "archive"
    /\ NeedsFallback(posts)
    /\ \E elems \in SeqsUpTo(ArchivePosts, MaxLen) :
          LET out == ArchiveCollect(elems)
          IN  /\ found' = [found EXCEPT !.archive = out]
              /\ posts' = posts \o out
    /\ dpc' = "sitemap"
    /\ calls' = Append(calls, "archive")
    /\ UNCHANGED <<config, rvars, nvars, ivars, hvars, gvars, bvars, unique_posts, catalog>>

SkipArchive ==
    /\ dpc = "archive"
    /\ ~NeedsFallback(posts)
    /\ dpc' = "sitemap"
    /\ UNCHANGED <<config, rvars, nvars, ivars, hvars, gvars, bvars, calls, found, posts, unique_posts, catalog>>

\* Method 3: if not posts: sitemap_posts = self._get_posts_from_sitemap()
GetPostsFromSitemap ==
    /\ dpc = "sitemap"
    /\ NeedsFallback(posts)
    /\ \E out \in SeqsUpTo(SitemapPosts, MaxLen) :
          /\ found' = [found EXCEPT !.sitemap = out]
          /\ posts' = posts \o out
    /\ dpc' = "dedup"
    /\ calls' = Append(calls, "sitemap")
    /\ UNCHANGED <<config, rvars, nvars, ivars, hvars, gvars, bvars, unique_posts, catalog>>

SkipSitemap ==
    /\ dpc = "sitemap"
    /\ ~NeedsFallback(posts)
    /\ dpc' = "dedup"
    /\ UNCHANGED <<config, rvars, nvars, ivars, hvars, gvars, bvars, calls, found, posts, unique_posts, catalog>>

\* Deduplicate by URL
Deduplicate ==
    /\ dpc = "dedup"
    /\ unique_posts' = DedupByUrl(posts)
    /\ dpc' = "sort"
    /\ UNCHANGED <<config, rvars, nvars, ivars, hvars, gvars, bvars, calls, found, posts, catalog>>

\* Sort by date (newest first); a TypeError leaves get_all_posts
SortByDate ==
    /\ dpc = "sort"
    /\ IF SortRaises(unique_posts)
       THEN dpc' = "sort_raised" /\ UNCHANGED unique_posts
       ELSE dpc' = "filter" /\ unique_posts' = SortPosts(unique_posts)
    /\ UNCHANGED <<config, rvars, nvars, ivars, hvars, gvars, bvars, calls, found, posts, catalog>>

\* filtered_posts = self._apply_filters(unique_posts); return filtered_posts
ApplyFilters ==
    /\ dpc = "filter"
    /\ LET r == _apply_filters(unique_posts, config)
       IN  IF r.raised
           THEN dpc' = "filter_raised" /\ UNCHANGED catalog
           ELSE dpc' = "done" /\ catalog' = r.value
    /\ UNCHANGED <<config, rvars, nvars, ivars, hvars, gvars, bvars, calls, found, posts, unique_posts>>

\* get_all_posts is not running
DiscoverIdle ==
    /\ dpc = "idle"
    /\ calls = <<>>
    /\ found = NotCalled
    /\ posts = <<>>
    /\ unique_posts = <<>>
    /\ catalog = <<>>

\* main is not running
BatchIdle ==
    /\ args = [resume |-> FALSE, limit_given |-> FALSE, limit |-> 0,
               no_images |-> FALSE]
    /\ mpc = "idle"
    /\ mposts = <<>>
    /\ idx = 0
    /\ visited = <<>>
    /\ events = <<>>
    /\ existing = {}
    /\ downloaded = 0
    /\ failed = 0
    /\ skipped = 0
    /\ disk = <<>>
    /\ returned = [set |-> FALSE]
    /\ metadata = [written |-> FALSE]
    /\ summary = [set |-> FALSE]
    /\ interrupt = [set |-> FALSE]

\* get_page is not running
FetchIdle ==
    /\ max_retries = 0
    /\ gpc = "idle"
    /\ retry = 0
    /\ loads = 0
    /\ waits = <<>>
    /\ outcomes = <<>>
    /\ page = "None"

\* no document is being named
NamesIdle ==
    /\ npc = "idle"
    /\ npost = [slug |-> <<>>, title |-> <<>>, date |-> NoDate]
    /\ nfiles = {}
    /\ nname = <<>>
    /\ nkeys = {}

\* no converter is at work
ImagesIdle ==
    /\ ipc = "idle"
    /\ dl_enabled = FALSE
    /\ content = [post |-> <<>>, html_content |-> <<>>, markdown_content |-> <<>>,
                  images |-> <<>>]
    /\ loop = [k |-> 0, images |-> <<>>, failed |-> {}, requests |-> 0]
    /\ _image_map = <<>>
    /\ downloads = <<>>
    /\ returns = <<>>
    /\ document = [written |-> FALSE, text |-> <<>>]

\* no metadata header is being written
HeaderIdle ==
    /\ hpc = "idle"
    /\ hpost = <<>>
    /\ header = <<>>

\* main has not been entered
StartupIdle ==
    /\ environ = <<>>
    /\ spc = "idle"
    /\ printed = <<>>
    /\ trail = <<>>
    /\ exit_code = -1

\* no strategy is creating Posts
LinksIdle ==
    /\ made = <<>>
    /\ dropped = {}

\* _get_posts_from_api is not running
ListingIdle ==
    /\ apc = "idle"
    /\ offset = 0
    /\ api_posts = <<>>
    /\ requests = <<>>
    /\ served = <<>>
    /\ api_returned = [set |-> FALSE, posts |-> <<>>]

\* get_post_content is not running
ContentIdle ==
    /\ cpc = "idle"
    /\ ccall = <<>>
    /\ cpost = <<>>
    /\ content_elem = "None"
    /\ creturned = <<>>

\* no text is being post-processed
PostprocessIdle ==
    /\ ppc = "idle"
    /\ markdown = <<>>
    /\ processed = <<>>

RestIdle ==
    /\ PostprocessIdle
    /\ StartupIdle
    /\ LinksIdle
    /\ ListingIdle
    /\ ContentIdle
    /\ ContentIdle

InitDiscover ==
    /\ config \in RunConfigs
    /\ DiscoverStart
    /\ NamesIdle
    /\ ImagesIdle
    /\ HeaderIdle
    /\ RestIdle
    /\ FetchIdle
    /\ BatchIdle

NextDiscover ==
    \/ GetPostsFromApi
    \/ GetPostsFromArchive
    \/ SkipArchive
    \/ GetPostsFromSitemap
    \/ SkipSitemap
    \/ Deduplicate
    \/ SortByDate
    \/ ApplyFilters

SpecDiscover == InitDiscover /\ [][NextDiscover]_vars

-----------------------------------------------------------------------------
(* Properties of the discovery engine *)

StrategyOrder == <<"api", "archive", "sitemap">>

NonEmptyStrategies == {k \in {"api", "archive", "sitemap"} : found[k] # <<>>}

\* C1: the strategies are called in the order API, archive, sitemap, a
\* strategy is called only when every earlier one returned nothing, and the
\* entries collected, hence the catalog, come from one strategy only.
C1_FirstNonEmptyStrategyWins ==
    /\ Len(calls) <= 3
    /\ calls = SubSeq(StrategyOrder, 1, Len(calls))
    /\ \A i \in 1..Len(calls) : \A j \in 1..(i - 1) : found[calls[j]] = <<>>
    /\ Cardinality(NonEmptyStrategies) <= 1
    /\ \A k \in NonEmptyStrategies : posts = found[k]
    /\ NonEmptyStrategies = {} => posts = <<>>
    /\ dpc = "done" => Range(catalog) \subseteq Range(posts)

\* the archive scan produced the catalog and the sitemap was never consulted
C1_Witness ==
    /\ dpc = "done"
    /\ calls = <<"api", "archive">>
    /\ catalog # <<>>

FirstIndex(ps, url) == CHOOSE i \in 1..Len(ps) :
    /\ ps[i].url = url
    /\ \A j \in 1..(i - 1) : ps[j].url # url

\* C2: the catalog get_all_posts returns holds each URL at most once, and the
\* entry it holds for a URL is the first entry with that URL in discovery
\* order.
C2_CatalogUniqueFirstWins ==
    dpc = "done" =>
        /\ \A i, j \in 1..Len(catalog) : i # j => catalog[i].url # catalog[j].url
        /\ \A i \in 1..Len(catalog) :
              /\ \E k \in 1..Len(posts) : posts[k].url = catalog[i].url
              /\ catalog[i] = posts[FirstIndex(posts, catalog[i].url)]

\* discovery listed one URL twice with different data and the catalog has it
C2_Witness ==
    /\ dpc = "done"
    /\ \E i, j \in 1..Len(posts) :
          /\ i < j
          /\ posts[i].url = posts[j].url
          /\ posts[i] # posts[j]
          /\ posts[i] \in Range(catalog)

Position(ps, url) == CHOOSE i \in 1..Len(ps) : ps[i].url = url

SameDate(a, b) ==
    /\ a.date.set = b.date.set
    /\ a.date.set => a.date.t = b.date.t

\* out is input in descending date order, undated entries last, ties and
\* undated entries in their order of input
SortedAsSpecified(out, input) ==
    /\ Len(out) = Len(input)
    /\ Range(out) = Range(input)
    /\ \A i, j \in 1..Len(out) : i < j =>
          /\ (out[i].date.set /\ out[j].date.set) => out[i].date.t >= out[j].date.t
          /\ out[j].date.set => out[i].date.set
          /\ SameDate(out[i], out[j]) =>
                Position(input, out[i].url) < Position(input, out[j].url)

\* C3: for every deduplicated list the sort step completes and yields the
\* entries in descending date order, undated entries after all dated ones,
\* equal dates and undated entries in discovery order.
C3_SortCompletesDescendingStable ==
    dpc \in {"sort_raised", "filter"} =>
        /\ dpc = "filter"
        /\ SortedAsSpecified(unique_posts, DedupByUrl(posts))

\* what the sort does whenever it completes
SortOrdersWhenItReturns ==
    dpc = "filter" => SortedAsSpecified(unique_posts, DedupByUrl(posts))

PassesFilters(p, cfg) ==
    /\ ~cfg.start_date.set \/ ~p.date.set \/ p.date.t >= cfg.start_date.t
    /\ ~cfg.end_date.set \/ ~p.date.set \/ p.date.t <= cfg.end_date.t
    /\ ~cfg.paid_only \/ p.is_paid

\* C4: _apply_filters returns exactly the entries that pass the start-date,
\* end-date and paid-only conditions (undated entries pass both date
\* conditions), in their original order, for every sorted list and config.
C4_FilterReturnsExactlyPassing ==
    dpc \in {"filter_raised", "done"} =>
        /\ dpc = "done"
        /\ catalog = SelectSeq(unique_posts, LAMBDA p : PassesFilters(p, config))

\* what _apply_filters does whenever it returns
FilterSelectsWhenItReturns ==
    dpc = "done" =>
        catalog = SelectSeq(unique_posts, LAMBDA p : PassesFilters(p, config))

-----------------------------------------------------------------------------
(* browser.py: get_page, one action per invocation (the retries are          *)
(* recursive calls with retry + 1).  The driver exists: main calls get_page *)
(* only between browser.setup() and browser.close().                        *)

\* the multiplier of wait_time = (retry + 1) * 15
RateLimitStep == 15

\* a backoff that counts the retries from zero
wait_time_from_zero(r) == r * RateLimitStep

\* wait_time = (retry + 1) * 15
wait_time(r) == (r + 1) * RateLimitStep

\* a guard that allows one retry too many
CanRetryOnceMore(r) == r <= max_retries

\* "if retry < self.config.max_retries", the guard of both retries
CanRetry(r) == r < max_retries

\* the page shows 'too many requests'
RateLimited ==
    /\ gpc = "call"
    /\ loads' = loads + 1
    /\ outcomes' = Append(outcomes, "rate_limited")
    /\ IF CanRetry(retry)
       THEN /\ waits' = Append(waits, wait_time(retry))
            /\ retry' = retry + 1
            /\ UNCHANGED <<gpc, page>>
       ELSE /\ gpc' = "returned"
            /\ page' = "None"
            /\ UNCHANGED <<waits, retry>>
    /\ UNCHANGED <<config, rvars, nvars, ivars, hvars, dvars, bvars, max_retries>>

\* except TimeoutException: retry without sleeping, or return None
TimedOut ==
    /\ gpc = "call"
    /\ loads' = loads + 1
    /\ outcomes' = Append(outcomes, "timeout")
    /\ IF CanRetry(retry)
       THEN /\ retry' = retry + 1
            /\ UNCHANGED <<gpc, page>>
       ELSE /\ gpc' = "returned"
            /\ page' = "None"
            /\ UNCHANGED retry
    /\ UNCHANGED <<config, rvars, nvars, ivars, hvars, dvars, bvars, max_retries, waits>>

\* except Exception: return None
LoadError ==
    /\ gpc = "call"
    /\ loads' = loads + 1
    /\ outcomes' = Append(outcomes, "error")
    /\ gpc' = "returned"
    /\ page' = "None"
    /\ UNCHANGED <<config, rvars, nvars, ivars, hvars, dvars, bvars, max_retries, retry, waits>>

\* return self.driver.page_source
Loaded ==
    /\ gpc = "call"
    /\ loads' = loads + 1
    /\ outcomes' = Append(outcomes, "ok")
    /\ gpc' = "returned"
    /\ page' = "page_source"
    /\ UNCHANGED <<config, rvars, nvars, ivars, hvars, dvars, bvars, max_retries, retry, waits>>

\* get_page(url) has just been called, with retry = 0
InitFetch ==
    /\ NamesIdle
    /\ ImagesIdle
    /\ HeaderIdle
    /\ RestIdle
    /\ config = NoFilters
    /\ DiscoverIdle
    /\ BatchIdle
    /\ max_retries \in 0..MaxRetries
    /\ gpc = "call"
    /\ retry = 0
    /\ loads = 0
    /\ waits = <<>>
    /\ outcomes = <<>>
    /\ page = "None"

NextFetch ==
    \/ RateLimited
    \/ TimedOut
    \/ LoadError
    \/ Loaded

SpecFetch == InitFetch /\ [][NextFetch]_vars

-----------------------------------------------------------------------------
(* Properties of get_page *)

AllOutcomes(o) == \A i \in 1..Len(outcomes) : outcomes[i] = o

RECURSIVE SumSeq(_)
SumSeq(s) == IF s = <<>> THEN 0 ELSE Head(s) + SumSeq(Tail(s))

\* C5: when every page load shows the rate-limit signal, get_page returns
\* None after exactly max_retries + 1 loads, having slept 15, 30, ...,
\* 15 * max_retries in that order, one sleep before each retry.
C5_RateLimitBackoff ==
    AllOutcomes("rate_limited") =>
        /\ waits = [i \in 1..Len(waits) |-> 15 * i]
        /\ gpc = "call" => Len(waits) = loads
        /\ gpc = "returned" =>
              /\ page = "None"
              /\ loads = max_retries + 1
              /\ Len(waits) = max_retries
              /\ 2 * SumSeq(waits) = 15 * max_retries * (max_retries + 1)

\* a call that met the rate limit on each of several loads has returned
C5_Witness ==
    /\ gpc = "returned"
    /\ AllOutcomes("rate_limited")
    /\ max_retries >= 2

\* the loads that were followed by a backoff sleep: the rate-limited ones
\* that still had a retry left
SleptAfter == {i \in 1..Len(outcomes) : outcomes[i] = "rate_limited" /\ i <= max_retries}

\* C6: whatever the loads meet, one get_page call makes at most
\* max_retries + 1 loads, timeouts and rate limits counting together; only
\* a rate-limited load is followed by a backoff sleep; and a call whose
\* loads all time out returns None.
C6_BoundedAttempts ==
    /\ loads <= max_retries + 1
    /\ loads = Len(outcomes)
    /\ Len(waits) = Cardinality(SleptAfter)
    /\ \A k \in 1..Len(waits) : \E i \in SleptAfter : waits[k] = 15 * i
    /\ gpc = "call" => retry = loads
    /\ (gpc = "returned" /\ AllOutcomes("timeout")) =>
            page = "None" /\ loads = max_retries + 1 /\ waits = <<>>

\* a call has returned after timing out on each of several loads
C6_Witness ==
    /\ gpc = "returned"
    /\ AllOutcomes("timeout")
    /\ max_retries >= 2

\* a call has mixed timeouts and rate limits and used up its retries
C6_MixedWitness ==
    /\ gpc = "returned"
    /\ loads = max_retries + 1
    /\ \E i, j \in 1..Len(outcomes) :
          outcomes[i] = "timeout" /\ outcomes[j] = "rate_limited"

-----------------------------------------------------------------------------
(* converter.py generate_filename and main.py get_downloaded_posts.  A text  *)
(* is the sequence of its characters, each a one-character string.          *)

Letters == {"a", "b", "c", "d", "k", "m", "x", "y"}

Capitals == {"A", "B"}

Digits == {"0", "1", "2", "3", "4"}

\* \w of the re module: alphanumeric characters and the underscore
WordChars == Letters \cup Capitals \cup Digits \cup {"_"}

\* \s of the re module
SpaceChars == {" ", "\n"}

\* str.lower
lower(s) ==
    [i \in 1..Len(s) |-> CASE s[i] = "A" -> "a" [] s[i] = "B" -> "b"
                           [] OTHER -> s[i]]

\* post.date.strftime('%Y-%m-%d')
strftime(d) ==
    <<"2", "0", "2", "4", "-", "0", "3", "-", "0", IF d.t = 1 THEN "1" ELSE "2">>

\* re.sub(r'[^\w\s-]', '', slug)
RemovePunctuation(s) ==
    SelectSeq(s, LAMBDA c : c \in WordChars \cup SpaceChars \cup {"-"})

Least(S) == CHOOSE i \in S : \A j \in S : i <= j

Greatest(S) == CHOOSE i \in S : \A j \in S : i >= j

\* re.sub(r'[\s_]+', '-', slug): the first character of a run of whitespace
\* and underscores becomes a hyphen, the rest of the run goes
HyphenateRuns(s) ==
    SelectSeq([i \in 1..Len(s) |->
                  IF s[i] \notin SpaceChars \cup {"_"} THEN s[i]
                  ELSE IF i > 1 /\ s[i - 1] \in SpaceChars \cup {"_"}
                       THEN "rest of run"
                       ELSE "-"],
              LAMBDA c : c # "rest of run")

\* str.strip(c)
strip(s, c) ==
    LET kept == {i \in 1..Len(s) : s[i] # c}
    IN  IF kept = {} THEN <<>> ELSE SubSeq(s, Least(kept), Greatest(kept))

SlugLimit == 50

\* the slug left at its full length
Uncut(s) == s

\* slug[:50]
Cut(s) == SubSeq(s, 1, IF Len(s) < SlugLimit THEN Len(s) ELSE SlugLimit)

DotMd == <<".", "m", "d">>

Undated == <<"u", "n", "d", "a", "t", "e", "d">>

\* f"{prefix}-{slug}.md"
generate_filename(post) ==
    LET prefix == IF post.date.set THEN strftime(post.date) ELSE Undated
        slug   == IF post.slug # <<>> THEN post.slug ELSE lower(post.title)
    IN  prefix \o <<"-">> \o Cut(strip(HyphenateRuns(RemovePunctuation(slug)), "-"))
               \o DotMd

\* str.find(c) + 1: the first position of c in s, 0 when there is none
Find(s, c) ==
    LET at == {i \in 1..Len(s) : s[i] = c}
    IN  IF at = {} THEN 0 ELSE Least(at)

\* str.split(sep, maxsplit)
RECURSIVE split(_, _, _)
split(s, sep, maxsplit) ==
    LET at == Find(s, sep)
    IN  IF maxsplit = 0 \/ at = 0
        THEN <<s>>
        ELSE <<SubSeq(s, 1, at - 1)>>
                \o split(SubSeq(s, at + 1, Len(s)), sep, maxsplit - 1)

\* Path.stem of a name that ends in .md
Stem(name) == SubSeq(name, 1, Len(name) - Len(DotMd))

\* parts = name.split('-', 3): parts[3] when there are four parts, else name
ResumeKey(stem) ==
    LET parts == split(stem, "-", 3)
    IN  IF Len(parts) >= 4 THEN parts[4] ELSE stem

\* the Resume Set of the *.md files of posts_dir
get_downloaded_posts(names) == {ResumeKey(Stem(n)) : n \in names}

-----------------------------------------------------------------------------
(* Naming one document and finding it again: main.py 269-274 names and       *)
(* writes the document of a Post, get_downloaded_posts of a later run scans  *)
(* posts_dir.                                                                *)

NameChars == {"a", "A", "_", " ", "-", "!"}

Texts == UNION {[1..k -> NameChars] : k \in 0..MaxText}

\* a run of letters that brings a text to the length of the cut
Padding == [i \in 1..(SlugLimit - 2) |-> "k"]

Sources == Texts \cup {Padding \o t : t \in Texts}

\* Posts with a slug, and Posts with an empty slug and a title
NamePosts ==
    {[slug |-> t, title |-> <<"A">>, date |-> d] :
        t \in Sources \ {<<>>}, d \in {NoDate, Naive(1), Aware(2)}}
    \cup {[slug |-> <<>>, title |-> t, date |-> d] :
        t \in Sources, d \in {NoDate, Naive(1), Aware(2)}}

\* posts_dir before the document is written: empty, or one file that no run
\* of the program named
OtherFiles ==
    {{}, {<<"a">> \o DotMd},
     {<<"a", "-", "b", "-", "c", "-", "d", "-", "k">> \o DotMd}}

\* filename = generate_filename(post); open(filepath, 'w')
GenerateFilename ==
    /\ npc = "generate"
    /\ nname' = generate_filename(npost)
    /\ nfiles' = nfiles \cup {nname'}
    /\ npc' = "scan"
    /\ UNCHANGED <<config, rvars, dvars, gvars, bvars, ivars, hvars, npost, nkeys>>

\* existing = get_downloaded_posts(config)
GetDownloadedPosts ==
    /\ npc = "scan"
    /\ nkeys' = get_downloaded_posts(nfiles)
    /\ npc' = "done"
    /\ UNCHANGED <<config, rvars, dvars, gvars, bvars, ivars, hvars, npost, nfiles, nname>>

InitNames ==
    /\ config = NoFilters
    /\ DiscoverIdle
    /\ FetchIdle
    /\ BatchIdle
    /\ ImagesIdle
    /\ HeaderIdle
    /\ RestIdle
    /\ npc = "generate"
    /\ npost \in NamePosts
    /\ nfiles \in OtherFiles
    /\ nname = <<>>
    /\ nkeys = {}

NextNames ==
    \/ GenerateFilename
    \/ GetDownloadedPosts

SpecNames == InitNames /\ [][NextNames]_vars

-----------------------------------------------------------------------------
(* Properties of get_downloaded_posts *)

\* the characters of a stem that are hyphens
Hyphens(stem) == {i \in 1..Len(stem) : stem[i] = "-"}

\* the position of the third hyphen of a stem that has three
ThirdHyphen(stem) ==
    CHOOSE i \in Hyphens(stem) : Cardinality({j \in Hyphens(stem) : j < i}) = 2

\* C12: the Resume Set holds, for every file name, the part of the stem after
\* the third hyphen when the stem has four or more hyphen-delimited segments
\* and the whole stem otherwise; for <date-or-"undated">-<slug>.md that value
\* is <slug>.
AfterThirdHyphen(stem) ==
    IF Cardinality(Hyphens(stem)) >= 3
    THEN SubSeq(stem, ThirdHyphen(stem) + 1, Len(stem))
    ELSE stem

\* the <slug> of the name generate_filename gave npost
SlugPart ==
    LET prefix == IF npost.date.set THEN strftime(npost.date) ELSE Undated
    IN  SubSeq(Stem(nname), Len(prefix) + 2, Len(Stem(nname)))

ResumeSetAsSplit ==
    npc = "done" => nkeys = {AfterThirdHyphen(Stem(n)) : n \in nfiles}

C12_ResumeSetHoldsTheSlug ==
    npc = "done" =>
        /\ nkeys = {AfterThirdHyphen(Stem(n)) : n \in nfiles}
        /\ AfterThirdHyphen(Stem(nname)) = SlugPart
        /\ SlugPart \in nkeys

\* for a dated document the value is the slug part of its name
DatedKeyIsSlugPart ==
    (npc = "done" /\ npost.date.set) =>
        /\ AfterThirdHyphen(Stem(nname)) = SlugPart
        /\ SlugPart \in nkeys

-----------------------------------------------------------------------------
(* Properties of generate_filename *)

\* the text generate_filename starts from
NameSource == IF npost.slug # <<>> THEN npost.slug ELSE lower(npost.title)

Alphanumeric == Letters \cup Capitals \cup Digits

IsPrefix(s, t) == Len(s) <= Len(t) /\ s = SubSeq(t, 1, Len(s))

\* a text of alphanumeric words with one space or hyphen between them
PlainWords(s) ==
    /\ s # <<>>
    /\ \A i \in 1..Len(s) : s[i] \in Alphanumeric \cup {" ", "-"}
    /\ s[1] \in Alphanumeric /\ s[Len(s)] \in Alphanumeric
    /\ \A i \in 1..(Len(s) - 1) :
          s[i] \in Alphanumeric \/ s[i + 1] \in Alphanumeric

\* C13: generate_filename returns <prefix>-<name>.md; prefix is the date as
\* YYYY-MM-DD or the word undated; name comes from the slug, or from the
\* lowercased title when the slug is empty, with the punctuation removed and
\* the whitespace turned into hyphens, has at most 50 characters and holds
\* only alphanumeric characters and hyphens.
C13_FilenameShape ==
    npc \in {"scan", "done"} =>
        /\ nname = (IF npost.date.set THEN strftime(npost.date) ELSE Undated)
                       \o <<"-">> \o SlugPart \o DotMd
        /\ Len(SlugPart) <= SlugLimit
        /\ \A i \in 1..Len(SlugPart) : SlugPart[i] \in Alphanumeric \cup {"-"}
        /\ IsPrefix(SelectSeq(SlugPart, LAMBDA c : c \in Alphanumeric),
                    SelectSeq(NameSource, LAMBDA c : c \in Alphanumeric))
        /\ Len(SlugPart) < SlugLimit =>
              SelectSeq(SlugPart, LAMBDA c : c \in Alphanumeric)
                  = SelectSeq(NameSource, LAMBDA c : c \in Alphanumeric)
        /\ PlainWords(NameSource) =>
              SlugPart = [i \in 1..(IF Len(NameSource) < SlugLimit
                                    THEN Len(NameSource) ELSE SlugLimit) |->
                             IF NameSource[i] = " " THEN "-" ELSE NameSource[i]]

\* an undated Post with an empty slug and a title of more than 50 characters
\* with a capital and a space in it, named with a name cut at 50 characters
C13_Witness ==
    /\ npc = "scan"
    /\ ~npost.date.set
    /\ npost.slug = <<>>
    /\ Len(npost.title) > SlugLimit
    /\ \E i, j \in 1..Len(npost.title) :
          npost.title[i] = "A" /\ npost.title[j] = " "
    /\ Len(SlugPart) = SlugLimit

\* a document on disk: the entry it was written for, and whether the write
\* ran to its end
Document(url, state) == [url |-> url, state |-> state]

Put(files, stem, doc) ==
    [n \in DOMAIN files \cup {stem} |-> IF n = stem THEN doc ELSE files[n]]

NoFiles == [n \in {} |-> Document("u1", "complete")]

-----------------------------------------------------------------------------
(* converter.py: MarkdownConverter.convert, on texts written as the sequence *)
(* of their characters                                                       *)

\* str.find(old) + 1 for a text old
FindText(s, old) ==
    LET at == {i \in 1..(Len(s) - Len(old) + 1) :
                  SubSeq(s, i, i + Len(old) - 1) = old}
    IN  IF at = {} THEN 0 ELSE Least(at)

RECURSIVE replace(_, _, _)
\* str.replace(old, new) for a non-empty old: the occurrences of old from
\* left to right, none overlapping another
replace(s, old, new) ==
    LET at == FindText(s, old)
    IN  IF at = 0 THEN s
        ELSE SubSeq(s, 1, at - 1) \o new
                 \o replace(SubSeq(s, at + Len(old), Len(s)), old, new)

\* text.replace('"', '\\"') alone
EscapeQuotesOnly(text) == replace(text, <<"\"">>, <<"\\", "\"">>)

\* _escape_yaml: '' for an empty text, else text.replace('"', '\\"')
\* .replace('\n', ' ')
_escape_yaml(text) ==
    IF text = <<>> THEN <<>>
    ELSE replace(replace(text, <<"\"">>, <<"\\", "\"">>), <<"\n">>, <<" ">>)

DigitChar(d) ==
    CASE d = 0 -> "0" [] d = 1 -> "1" [] d = 2 -> "2" [] d = 3 -> "3"
      [] d = 4 -> "4" [] d = 5 -> "5" [] d = 6 -> "6" [] d = 7 -> "7"
      [] d = 8 -> "8" [] OTHER -> "9"

RECURSIVE str(_)
\* the decimal numeral of a natural number, as an f-string writes it
str(n) == IF n < 10 THEN <<DigitChar(n)>> ELSE str(n \div 10) \o <<DigitChar(n % 10)>>

Dashes == <<"-", "-", "-">>

NewLine == <<"\n">>

Quoted(key, value) == key \o <<":", " ", "\"">> \o value \o <<"\"">>

Plain(key, value) == key \o <<":", " ">> \o value

\* a paid line written for every Post, with false for an entry that is free
PaidLineAlways(post) ==
    <<Plain(<<"p", "a", "i", "d">>, IF post.is_paid THEN <<"t", "r", "u", "e">> ELSE <<"f", "a", "l", "s", "e">>)>>

\* if post.is_paid: frontmatter_lines.append('paid: true')
PaidLine(post) == IF post.is_paid THEN <<Plain(<<"p", "a", "i", "d">>, <<"t", "r", "u", "e">>)>> ELSE <<>>

\* frontmatter_lines of _add_frontmatter
frontmatter_lines(post) ==
    <<Dashes, Quoted(<<"t", "i", "t", "l", "e">>, _escape_yaml(post.title))>>
    \o (IF post.subtitle # <<>>
        THEN <<Quoted(<<"s", "u", "b", "t", "i", "t", "l", "e">>, _escape_yaml(post.subtitle))>> ELSE <<>>)
    \o (IF post.author # <<>>
        THEN <<Quoted(<<"a", "u", "t", "h", "o", "r">>, _escape_yaml(post.author))>> ELSE <<>>)
    \o (IF post.date.set THEN <<Plain(<<"d", "a", "t", "e">>, strftime(post.date))>> ELSE <<>>)
    \o <<Quoted(<<"u", "r", "l">>, post.url)>>
    \o PaidLine(post)
    \o (IF post.word_count # 0
        THEN <<Plain(<<"w", "o", "r", "d", "_", "c", "o", "u", "n", "t">>, str(post.word_count))>> ELSE <<>>)
    \o <<Dashes, <<>> >>

RECURSIVE join(_, _)
\* sep.join(lines)
join(sep, lines) ==
    IF lines = <<>> THEN <<>>
    ELSE IF Len(lines) = 1 THEN lines[1]
         ELSE lines[1] \o sep \o join(sep, Tail(lines))

\* _add_frontmatter: '\n'.join(frontmatter_lines) + md
_add_frontmatter(post, md) == join(NewLine, frontmatter_lines(post)) \o md

-----------------------------------------------------------------------------
(* converter.py: one MarkdownConverter and the PostContents it is given; the *)
(* pages hold images only, each written with the text of its src attribute.  *)

\* largest number of img tags in a page
MaxImages == 2

\* config.substack_url
SubstackUrl == <<"h", "t", "t", "p", "s", ":", "/", "/", "s">>

ImageA == <<"h", "t", "t", "p", "s", ":", "/", "/", "h", "/", "a">>

ImageAB == <<"h", "t", "t", "p", "s", ":", "/", "/", "h", "/", "a", "b">>

\* src as the page writes it: absolute, protocol-relative, root-relative, a
\* data: URI, or none
RawSources == {ImageA, ImageAB, <<"/", "/", "h", "/", "a">>, <<"/", "a">>, <<"d", "a", "t", "a", ":", "x">>, <<>>}

\* urljoin(base, src) for a base without path and a src that starts with /
urljoin(base, src) == base \o src

\* the src download_images goes on with
Normalize(src) ==
    IF IsPrefix(<<"/", "/">>, src) THEN <<"h", "t", "t", "p", "s", ":">> \o src
    ELSE IF IsPrefix(<<"/">>, src) THEN urljoin(SubstackUrl, src)
         ELSE src

\* if not src: continue; if src.startswith('data:'): continue
NoDownload(src) == src = <<>> \/ IsPrefix(<<"d", "a", "t", "a", ":">>, src)

SourceUrls == {Normalize(src) : src \in {r \in RawSources : ~NoDownload(r)}}

\* hashlib.md5(url.encode()).hexdigest()[:12], one character standing for the
\* twelve
url_hash(url) ==
    CASE url = ImageA -> <<"1">> [] url = ImageAB -> <<"2">> [] OTHER -> <<"3">>

\* the extensions _get_extension may settle on
Extensions == {<<".", "j", "p", "g">>, <<".", "p", "n", "g">>}

\* filename = f"img_{url_hash}{ext}"
LocalName(url, ext) == <<"i", "m", "g", "_">> \o url_hash(url) \o ext

Htmls == UNION {[1..n -> RawSources] : n \in 0..MaxImages}

\* markdownify and _postprocess_markdown on a page of images: one ![](src)
\* per img tag, a blank line between them, one newline at the end
markdownify(html) ==
    join(<<"\n", "\n">>, [i \in 1..Len(html) |-> <<"!", "[", "]", "(">> \o html[i] \o <<")">>])
        \o NewLine

\* a convert that hands back the text it stored on an earlier call
convert_stored(c) ==
    IF c.markdown_content # <<>> THEN c.markdown_content
    ELSE _add_frontmatter(c.post, markdownify(c.html_content))

\* convert: the text made from content.html_content and content.post
convert(c) == _add_frontmatter(c.post, markdownify(c.html_content))

RECURSIVE ReplaceEach(_, _)
\* the for loop of update_image_paths
ReplaceEach(md, images) ==
    IF images = <<>> THEN md
    ELSE ReplaceEach(replace(md, Head(images).url,
                             <<".", ".", "/", "i", "m", "a", "g", "e", "s", "/">> \o Head(images).local_path),
                     Tail(images))

update_image_paths(c) == ReplaceEach(c.markdown_content, c.images)

\* the Post of the pages
ImagePost ==
    [url |-> <<"h", "t", "t", "p", "s", ":", "/", "/", "s", "/", "p", "/", "a">>, title |-> <<"a">>, subtitle |-> <<>>,
     author |-> <<>>, date |-> NoDate, is_paid |-> FALSE, word_count |-> 0]

PostContent(html) ==
    [post |-> ImagePost, html_content |-> html, markdown_content |-> <<>>,
     images |-> <<>>]

NoLoop == [k |-> 0, images |-> <<>>, failed |-> {}, requests |-> 0]

NoDocument == [written |-> FALSE, text |-> <<>>]

\* md = converter.convert(content)
Convert ==
    /\ ipc = "convert"
    /\ content' = [content EXCEPT !.markdown_content = convert(content)]
    /\ returns' = Append(returns, convert(content))
    /\ ipc' = "images"
    /\ UNCHANGED <<config, rvars, dvars, gvars, bvars, nvars, hvars, dl_enabled, loop,
                   _image_map, downloads, document>>

\* download_images: if not self.config.download_images: return []
DownloadImagesDisabled ==
    /\ ipc = "images"
    /\ ~dl_enabled
    /\ ipc' = "update"
    /\ UNCHANGED <<config, rvars, dvars, gvars, bvars, nvars, hvars, dl_enabled, content,
                   loop, _image_map, downloads, returns, document>>

\* download_images up to the for loop: images = []
DownloadImagesStart ==
    /\ ipc = "images"
    /\ dl_enabled
    /\ loop' = NoLoop
    /\ ipc' = "img"
    /\ UNCHANGED <<config, rvars, dvars, gvars, bvars, nvars, hvars, dl_enabled, content,
                   _image_map, downloads, returns, document>>

\* the src of the img tag the loop is at
Src == content.html_content[loop.k + 1]

AtImage == ipc = "img" /\ loop.k < Len(content.html_content)

\* no src, or a data: URI: continue
SkipImage ==
    /\ AtImage
    /\ NoDownload(Src)
    /\ loop' = [loop EXCEPT !.k = @ + 1]
    /\ UNCHANGED <<config, rvars, dvars, gvars, bvars, nvars, hvars, ipc, dl_enabled,
                   content, _image_map, downloads, returns, document>>

Image(url, local_path) == [url |-> url, local_path |-> local_path]

\* if src in self._image_map: append the cached name; continue
CachedImage ==
    /\ AtImage
    /\ ~NoDownload(Src)
    /\ Normalize(Src) \in DOMAIN _image_map
    /\ loop' = [loop EXCEPT !.k = @ + 1,
                            !.images = Append(@, Image(Normalize(Src),
                                                       _image_map[Normalize(Src)]))]
    /\ UNCHANGED <<config, rvars, dvars, gvars, bvars, nvars, hvars, ipc, dl_enabled,
                   content, _image_map, downloads, returns, document>>

\* a download that succeeds with nothing written to self._image_map
DownloadSucceededUncached ==
    /\ AtImage
    /\ ~NoDownload(Src)
    /\ Normalize(Src) \notin DOMAIN _image_map
    /\ downloads[Normalize(Src)] < 2
    /\ \E ext \in Extensions :
          loop' = [loop EXCEPT !.k = @ + 1, !.requests = @ + 1,
                               !.images = Append(@, Image(Normalize(Src),
                                               LocalName(Normalize(Src), ext)))]
    /\ downloads' = [downloads EXCEPT ![Normalize(Src)] = @ + 1]
    /\ UNCHANGED <<config, rvars, dvars, gvars, bvars, nvars, hvars, ipc, dl_enabled,
                   content, _image_map, returns, document>>

\* local_path = self._download_image(src) returns a filename: the cache and
\* images receive it
DownloadSucceeded ==
    /\ AtImage
    /\ ~NoDownload(Src)
    /\ Normalize(Src) \notin DOMAIN _image_map
    /\ downloads[Normalize(Src)] < 2
    /\ \E ext \in Extensions :
          /\ _image_map' = [u \in DOMAIN _image_map \cup {Normalize(Src)} |->
                               IF u = Normalize(Src)
                               THEN LocalName(Normalize(Src), ext)
                               ELSE _image_map[u]]
          /\ loop' = [loop EXCEPT !.k = @ + 1, !.requests = @ + 1,
                                  !.images = Append(@, Image(Normalize(Src),
                                               LocalName(Normalize(Src), ext)))]
    /\ downloads' = [downloads EXCEPT ![Normalize(Src)] = @ + 1]
    /\ UNCHANGED <<config, rvars, dvars, gvars, bvars, nvars, hvars, ipc, dl_enabled,
                   content, returns, document>>

\* a failed download that ends the for loop
DownloadFailedBreaks ==
    /\ AtImage
    /\ ~NoDownload(Src)
    /\ Normalize(Src) \notin DOMAIN _image_map
    /\ loop' = [loop EXCEPT !.k = Len(content.html_content), !.requests = @ + 1,
                            !.failed = @ \cup {loop.k + 1}]
    /\ UNCHANGED <<config, rvars, dvars, gvars, bvars, nvars, hvars, ipc, dl_enabled,
                   content, _image_map, downloads, returns, document>>

\* _download_image catches the exception and returns None: nothing is added
DownloadFailed ==
    /\ AtImage
    /\ ~NoDownload(Src)
    /\ Normalize(Src) \notin DOMAIN _image_map
    /\ loop' = [loop EXCEPT !.k = @ + 1, !.requests = @ + 1,
                            !.failed = @ \cup {loop.k + 1}]
    /\ UNCHANGED <<config, rvars, dvars, gvars, bvars, nvars, hvars, ipc, dl_enabled,
                   content, _image_map, downloads, returns, document>>

\* content.images = images; return images
DownloadImagesReturn ==
    /\ ipc = "img"
    /\ loop.k = Len(content.html_content)
    /\ content' = [content EXCEPT !.images = loop.images]
    /\ ipc' = "update"
    /\ UNCHANGED <<config, rvars, dvars, gvars, bvars, nvars, hvars, dl_enabled, loop,
                   _image_map, downloads, returns, document>>

\* md = converter.update_image_paths(content)
UpdateImagePaths ==
    /\ ipc = "update"
    /\ content' = [content EXCEPT !.markdown_content = update_image_paths(content)]
    /\ ipc' = "write"
    /\ UNCHANGED <<config, rvars, dvars, gvars, bvars, nvars, hvars, dl_enabled, loop,
                   _image_map, downloads, returns, document>>

\* f.write(md): the document is persisted and counted
WriteDocument ==
    /\ ipc = "write"
    /\ document' = [written |-> TRUE, text |-> content.markdown_content]
    /\ ipc' = "saved"
    /\ UNCHANGED <<config, rvars, dvars, gvars, bvars, nvars, hvars, dl_enabled, content,
                   loop, _image_map, downloads, returns>>

\* convert called once more on the PostContent of a written document
ConvertAgain ==
    /\ ipc = "saved"
    /\ content' = [content EXCEPT !.markdown_content = convert(content)]
    /\ returns' = Append(returns, convert(content))
    /\ ipc' = "converted_again"
    /\ UNCHANGED <<config, rvars, dvars, gvars, bvars, nvars, hvars, dl_enabled, loop,
                   _image_map, downloads, document>>

\* the next entry of the run: a new PostContent for the same converter
NextEntry ==
    /\ ipc \in {"saved", "converted_again"}
    /\ \E html \in Htmls : content' = PostContent(html)
    /\ loop' = NoLoop
    /\ returns' = <<>>
    /\ document' = NoDocument
    /\ ipc' = "convert"
    /\ UNCHANGED <<config, rvars, dvars, gvars, bvars, nvars, hvars, dl_enabled,
                   _image_map, downloads>>

\* MarkdownConverter.__init__: an empty cache
InitImages ==
    /\ config = NoFilters
    /\ DiscoverIdle
    /\ FetchIdle
    /\ BatchIdle
    /\ NamesIdle
    /\ HeaderIdle
    /\ RestIdle
    /\ ipc = "convert"
    /\ dl_enabled \in BOOLEAN
    /\ content \in {PostContent(html) : html \in Htmls}
    /\ loop = NoLoop
    /\ _image_map = <<>>
    /\ downloads = [u \in SourceUrls |-> 0]
    /\ returns = <<>>
    /\ document = NoDocument

NextImages ==
    \/ Convert
    \/ DownloadImagesDisabled
    \/ DownloadImagesStart
    \/ SkipImage
    \/ CachedImage
    \/ DownloadSucceeded
    \/ DownloadFailed
    \/ DownloadImagesReturn
    \/ UpdateImagePaths
    \/ WriteDocument
    \/ ConvertAgain
    \/ NextEntry

SpecImages == InitImages /\ [][NextImages]_vars

-----------------------------------------------------------------------------
(* converter.py: _add_frontmatter on its own, for Posts whose texts hold     *)
(* quotes, newlines and backslashes                                          *)

HeaderChars == {"a", "\"", "\n", "\\"}

HeaderTexts == UNION {[1..k -> HeaderChars] : k \in 0..MaxText}

\* the subtitle and the author of a Post: None or '', or a text
OptionalTexts == {<<>>, <<"a">>, <<"\"", "\n">>, <<"\\", "\"">>}

HeaderPosts ==
    [url : {<<"h", "t", "t", "p", "s", ":", "/", "/", "s", "/", "p", "/", "a">>}, title : HeaderTexts, subtitle : OptionalTexts,
     author : OptionalTexts, date : {NoDate, Naive(1)}, is_paid : BOOLEAN,
     word_count : {0, 7, 12}]

\* md = self._add_frontmatter(content.post, md), here for an empty md
AddFrontmatter ==
    /\ hpc = "call"
    /\ header' = _add_frontmatter(hpost, <<>>)
    /\ hpc' = "returned"
    /\ UNCHANGED <<config, rvars, dvars, gvars, bvars, nvars, ivars, hpost>>

InitHeader ==
    /\ config = NoFilters
    /\ DiscoverIdle
    /\ FetchIdle
    /\ BatchIdle
    /\ NamesIdle
    /\ ImagesIdle
    /\ RestIdle
    /\ hpc = "call"
    /\ hpost \in HeaderPosts
    /\ header = <<>>

NextHeader == AddFrontmatter

SpecHeader == InitHeader /\ [][NextHeader]_vars

-----------------------------------------------------------------------------
(* main.py: main from the call of get_all_posts on, in a run without --url  *)
(* and --list-only, and download_all_posts                                   *)

\* get_all_posts from the deduplication on: [raised, value]
get_all_posts(ps, cfg) ==
    LET unique == DedupByUrl(ps)
    IN  IF SortRaises(unique)
        THEN [raised |-> TRUE, value |-> <<>>]
        ELSE _apply_filters(SortPosts(unique), cfg)

\* the entries the publication of a batch run lists
BatchPosts ==
    {Post("u1", Naive(2), FALSE), Post("u2", Naive(1), FALSE),
     Post("u3", NoDate, FALSE), Post("u1", Aware(1), FALSE),
     Post("u4", Naive(1), FALSE)}

\* the documents an earlier run may have left in posts_dir
EarlierPosts ==
    {Post("u1", Naive(2), FALSE), Post("u2", Naive(1), FALSE),
     Post("u3", NoDate, FALSE)}

DiskOf(ps) ==
    [n \in {generate_filename(q) : q \in ps} |->
        Document((CHOOSE q \in ps : generate_filename(q) = n).url, "complete")]

Min(a, b) == IF a < b THEN a ELSE b

\* if limit: posts = posts[:limit]
Truthy(a) == a.limit_given /\ a.limit # 0

Truncated(ps) ==
    IF Truthy(args) THEN SubSeq(ps, 1, Min(args.limit, Len(ps))) ELSE ps

Counts == [set |-> TRUE, downloaded |-> downloaded, failed |-> failed,
           skipped |-> skipped]

NoCounts == [set |-> FALSE, downloaded |-> 0, failed |-> 0, skipped |-> 0]

NoMetadata == [written |-> FALSE, total_posts |-> 0, posts |-> <<>>]

NoInterrupt == [set |-> FALSE, counts |-> NoCounts, visited |-> <<>>,
                disk |-> NoFiles, inflight |-> <<>>]

\* the statements of the loop body inside the try block
InTry == {"fetch", "convert", "images", "write"}

\* posts = scraper.get_all_posts(); if not posts: sys.exit(0)
MainGetAllPosts ==
    /\ mpc = "get_all_posts"
    /\ \E ps \in SeqsUpTo(BatchPosts, MaxCatalog) :
          LET r == get_all_posts(ps, config)
          IN  IF r.raised
              THEN mpc' = "error" /\ UNCHANGED mposts
              ELSE IF r.value = <<>>
                   THEN mpc' = "no_posts" /\ UNCHANGED mposts
                   ELSE mpc' = "download_all_posts" /\ mposts' = r.value
    /\ UNCHANGED <<config, rvars, nvars, ivars, hvars, dvars, gvars, args, idx, visited, events, existing,
                   downloaded, failed, skipped, disk, returned, metadata,
                   summary, interrupt>>

\* download_all_posts up to the loop: the counters, existing, the limit
EnterDownloadAllPosts ==
    /\ mpc = "download_all_posts"
    /\ downloaded' = 0
    /\ failed' = 0
    /\ skipped' = 0
    /\ existing' = IF args.resume THEN get_downloaded_posts(DOMAIN disk) ELSE {}
    /\ idx' = 0
    /\ mpc' = "loop"
    /\ UNCHANGED <<config, rvars, nvars, ivars, hvars, dvars, gvars, args, mposts, visited, events, disk,
                   returned, metadata, summary, interrupt>>

\* a resume branch that moves on without counting the entry
SkipDownloadedUncounted ==
    /\ mpc = "loop"
    /\ idx < Len(Truncated(mposts))
    /\ args.resume /\ mposts[idx + 1].slug \in existing
    /\ idx' = idx + 1
    /\ visited' = Append(visited, mposts[idx + 1].url)
    /\ events' = Append(events, "skipped")
    /\ UNCHANGED <<config, rvars, nvars, ivars, hvars, dvars, gvars, args, mpc, mposts, existing, downloaded,
                   failed, skipped, disk, returned, metadata, summary, interrupt>>

\* if resume and post.slug in existing: skipped += 1; continue
SkipDownloaded ==
    /\ mpc = "loop"
    /\ idx < Len(Truncated(mposts))
    /\ args.resume /\ mposts[idx + 1].slug \in existing
    /\ skipped' = skipped + 1
    /\ idx' = idx + 1
    /\ visited' = Append(visited, mposts[idx + 1].url)
    /\ events' = Append(events, "skipped")
    /\ UNCHANGED <<config, rvars, nvars, ivars, hvars, dvars, gvars, args, mpc, mposts, existing, downloaded,
                   failed, disk, returned, metadata, summary, interrupt>>

\* the loop body enters the try block
BeginEntry ==
    /\ mpc = "loop"
    /\ idx < Len(Truncated(mposts))
    /\ ~(args.resume /\ mposts[idx + 1].slug \in existing)
    /\ visited' = Append(visited, mposts[idx + 1].url)
    /\ mpc' = "fetch"
    /\ UNCHANGED <<config, rvars, nvars, ivars, hvars, dvars, gvars, args, mposts, idx, events, existing,
                   downloaded, failed, skipped, disk, returned, metadata,
                   summary, interrupt>>

\* get_post_content returned None (no page, or no content region):
\* failed += 1; continue
NoContent ==
    /\ mpc = "fetch"
    /\ failed' = failed + 1
    /\ idx' = idx + 1
    /\ events' = Append(events, "no_content")
    /\ mpc' = "loop"
    /\ UNCHANGED <<config, rvars, nvars, ivars, hvars, dvars, gvars, args, mposts, visited, existing,
                   downloaded, skipped, disk, returned, metadata, summary,
                   interrupt>>

\* get_post_content found the content; _update_post_metadata sets the date
\* of an undated Post from the page, in the Post object the catalog holds
GotContent ==
    /\ mpc = "fetch"
    /\ \E page_date \in ParsedDates :
          mposts' = [mposts EXCEPT ![idx + 1].date =
                        IF ~@.set /\ page_date.set THEN page_date ELSE @]
    /\ mpc' = "convert"
    /\ UNCHANGED <<config, rvars, nvars, ivars, hvars, dvars, gvars, args, idx, visited, events, existing,
                   downloaded, failed, skipped, disk, returned, metadata,
                   summary, interrupt>>

\* converter.convert(content); if config.download_images: ...
Converted ==
    /\ mpc = "convert"
    /\ mpc' = IF args.no_images THEN "write" ELSE "images"
    /\ UNCHANGED <<config, rvars, nvars, ivars, hvars, dvars, gvars, args, mposts, idx, visited, events,
                   existing, downloaded, failed, skipped, disk, returned,
                   metadata, summary, interrupt>>

\* converter.download_images(content); converter.update_image_paths(content)
ImagesResolved ==
    /\ mpc = "images"
    /\ mpc' = "write"
    /\ UNCHANGED <<config, rvars, nvars, ivars, hvars, dvars, gvars, args, mposts, idx, visited, events,
                   existing, downloaded, failed, skipped, disk, returned,
                   metadata, summary, interrupt>>

\* the document is written; downloaded += 1
Saved ==
    /\ mpc = "write"
    /\ disk' = Put(disk, generate_filename(mposts[idx + 1]),
                   Document(mposts[idx + 1].url, "complete"))
    /\ downloaded' = downloaded + 1
    /\ idx' = idx + 1
    /\ events' = Append(events, "saved")
    /\ mpc' = "loop"
    /\ UNCHANGED <<config, rvars, nvars, ivars, hvars, dvars, gvars, args, mposts, visited, existing, failed,
                   skipped, returned, metadata, summary, interrupt>>

\* what a write that did not run to its end may leave in posts_dir: nothing
\* new (open failed), or a cut-off file under the entry's name
CutOffWrites ==
    {disk, Put(disk, generate_filename(mposts[idx + 1]),
               Document(mposts[idx + 1].url, "partial"))}

\* an exception handler that counts the failure and leaves the loop
EntryErrorBreaks ==
    /\ mpc \in InTry
    /\ failed' = failed + 1
    /\ idx' = idx + 1
    /\ events' = Append(events, "error")
    /\ disk' \in (IF mpc = "write" THEN CutOffWrites ELSE {disk})
    /\ returned' = [Counts EXCEPT !.failed = failed + 1]
    /\ mpc' = "save_metadata"
    /\ UNCHANGED <<config, rvars, nvars, ivars, hvars, dvars, gvars, args, mposts, visited, existing,
                   downloaded, skipped, metadata, summary, interrupt>>

\* except Exception as e: failed += 1, then the loop goes on
EntryError ==
    /\ mpc \in InTry
    /\ failed' = failed + 1
    /\ idx' = idx + 1
    /\ events' = Append(events, "error")
    /\ disk' \in (IF mpc = "write" THEN CutOffWrites ELSE {disk})
    /\ mpc' = "loop"
    /\ UNCHANGED <<config, rvars, nvars, ivars, hvars, dvars, gvars, args, mposts, visited, existing,
                   downloaded, skipped, returned, metadata, summary, interrupt>>

\* except KeyboardInterrupt: break, then return downloaded, failed, skipped
InterruptInTry ==
    /\ mpc \in InTry
    /\ disk' \in (IF mpc = "write" THEN CutOffWrites ELSE {disk})
    /\ interrupt' = [set |-> TRUE, counts |-> Counts, visited |-> visited,
                     disk |-> disk,
                     inflight |-> generate_filename(mposts[idx + 1])]
    /\ returned' = Counts
    /\ mpc' = "save_metadata"
    /\ UNCHANGED <<config, rvars, nvars, ivars, hvars, dvars, gvars, args, mposts, idx, visited, events,
                   existing, downloaded, failed, skipped, metadata, summary>>

\* a KeyboardInterrupt outside the try block (the resume check, pbar.update,
\* the for statement) leaves download_all_posts and reaches main's
\* "except KeyboardInterrupt", which prints a line and falls to finally
InterruptBetweenEntries ==
    /\ mpc = "loop"
    /\ interrupt' = [set |-> TRUE, counts |-> Counts, visited |-> visited,
                     disk |-> disk, inflight |-> <<>>]
    /\ mpc' = "interrupted"
    /\ UNCHANGED <<config, rvars, nvars, ivars, hvars, dvars, gvars, args, mposts, idx, visited, events,
                   existing, downloaded, failed, skipped, disk, returned,
                   metadata, summary>>

\* the for loop is exhausted: return downloaded, failed, skipped
LoopReturn ==
    /\ mpc = "loop"
    /\ idx = Len(Truncated(mposts))
    /\ returned' = Counts
    /\ mpc' = "save_metadata"
    /\ UNCHANGED <<config, rvars, nvars, ivars, hvars, dvars, gvars, args, mposts, idx, visited, events,
                   existing, downloaded, failed, skipped, disk, metadata,
                   summary, interrupt>>

\* JSON null
Null == [json |-> "null", text |-> <<>>]

\* a JSON string
String(text) == [json |-> "string", text |-> text]

\* datetime.isoformat(): the day, T, the time of day, and the offset of an
\* aware datetime
isoformat(d) ==
    strftime(d) \o <<"T", "0", "0", ":", "0", "0", ":", "0", "0">>
                \o (IF d.aware THEN <<"+", "0", "0", ":", "0", "0">> ELSE <<>>)

\* a serialization that writes a word where the date is absent
to_dict_placeholder(post) ==
    [post EXCEPT !.date = String(IF @.set THEN isoformat(@)
                                 ELSE <<"N", "o", "n", "e">>)]

\* Post.to_dict: asdict(self), the date replaced by its isoformat text when
\* it is set
to_dict(post) ==
    [post EXCEPT !.date = IF @.set THEN String(isoformat(@)) ELSE Null]

\* save_metadata(config, posts)
SaveMetadata ==
    /\ mpc = "save_metadata"
    /\ metadata' = [written |-> TRUE, total_posts |-> Len(mposts),
                    posts |-> [i \in 1..Len(mposts) |-> to_dict(mposts[i])]]
    /\ mpc' = "summary"
    /\ UNCHANGED <<config, rvars, nvars, ivars, hvars, dvars, gvars, args, mposts, idx, visited, events,
                   existing, downloaded, failed, skipped, disk, returned,
                   summary, interrupt>>

\* the Download Complete panel, then finally: browser.close()
PrintSummary ==
    /\ mpc = "summary"
    /\ summary' = returned
    /\ mpc' = "done"
    /\ UNCHANGED <<config, rvars, nvars, ivars, hvars, dvars, gvars, args, mposts, idx, visited, events,
                   existing, downloaded, failed, skipped, disk, returned,
                   metadata, interrupt>>

\* the command line: --resume, --limit N (an integer, None when the option is
\* absent), --no-images
Arguments ==
    {a \in [resume : BOOLEAN, limit_given : BOOLEAN, limit : 0..MaxLimit,
            no_images : BOOLEAN] : ~a.limit_given => a.limit = 0}

\* main has passed validation and login and is about to call get_all_posts
InitBatch ==
    /\ config \in RunConfigs
    /\ DiscoverIdle
    /\ FetchIdle
    /\ args \in Arguments
    /\ NamesIdle
    /\ ImagesIdle
    /\ HeaderIdle
    /\ RestIdle
    /\ mpc = "get_all_posts"
    /\ mposts = <<>>
    /\ idx = 0
    /\ visited = <<>>
    /\ events = <<>>
    /\ existing = {}
    /\ downloaded = 0
    /\ failed = 0
    /\ skipped = 0
    /\ disk \in {DiskOf(ps) : ps \in SUBSET EarlierPosts}
    /\ returned = NoCounts
    /\ metadata = NoMetadata
    /\ summary = NoCounts
    /\ interrupt = NoInterrupt

NextBatch ==
    \/ MainGetAllPosts
    \/ EnterDownloadAllPosts
    \/ SkipDownloaded
    \/ BeginEntry
    \/ NoContent
    \/ GotContent
    \/ Converted
    \/ ImagesResolved
    \/ Saved
    \/ EntryError
    \/ InterruptInTry
    \/ InterruptBetweenEntries
    \/ LoopReturn
    \/ SaveMetadata
    \/ PrintSummary

SpecBatch == InitBatch /\ [][NextBatch]_vars

-----------------------------------------------------------------------------
(* Properties of the batch driver *)

CountOf(kinds) == Cardinality({i \in 1..Len(events) : events[i] \in kinds})

Total == downloaded + failed + skipped

InLoop == mpc \in InTry \cup {"loop"}

\* download_all_posts returned because the for loop ran out of entries
LoopRanOut == returned.set /\ ~interrupt.set

C7_State ==
    (InLoop \/ returned.set \/ interrupt.set) =>
        /\ Len(visited) <= Len(Truncated(mposts))
        /\ \A i \in 1..Len(visited) : visited[i] = mposts[i].url
        /\ Total = Len(events)
        /\ Len(visited) \in {Len(events), Len(events) + 1}
        /\ LoopRanOut => Total = Len(Truncated(mposts))

C7_Step ==
    InLoop =>
        /\ downloaded' >= downloaded
        /\ failed' >= failed
        /\ skipped' >= skipped
        /\ Len(events') = Len(events) + 1 =>
              \/ (downloaded' = downloaded + 1 /\ failed' = failed /\ skipped' = skipped)
              \/ (downloaded' = downloaded /\ failed' = failed + 1 /\ skipped' = skipped)
              \/ (downloaded' = downloaded /\ failed' = failed /\ skipped' = skipped + 1)
        /\ Len(events') = Len(events) =>
              (downloaded' = downloaded /\ failed' = failed /\ skipped' = skipped)

\* C7: the entries of the truncated catalog are visited in catalog order, no
\* counter ever decreases, every entry the loop finishes with adds one to
\* exactly one counter, and when the loop runs out of entries the three
\* counters add up to the length of the truncated catalog.
C7_CountersFollowTheCatalog == [](C7_State) /\ [][C7_Step]_vars

\* a run over three entries that skipped one, failed one and saved one
C7_Witness ==
    /\ LoopRanOut
    /\ Len(visited) = 3
    /\ downloaded = 1 /\ failed = 1 /\ skipped = 1

\* C8: an entry whose fetch gives no content, or whose pipeline raises, is
\* counted as failed once, no other entry is counted for it, and the loop
\* still visits every later entry of the catalog.
C8_FailureDoesNotStopTheBatch ==
    /\ failed = CountOf({"no_content", "error"})
    /\ downloaded = CountOf({"saved"})
    /\ skipped = CountOf({"skipped"})
    /\ (returned.set /\ ~interrupt.set) =>
            /\ Len(events) = Len(Truncated(mposts))
            /\ Len(visited) = Len(Truncated(mposts))

\* the first entry failed in the pipeline, the second got no content, and
\* the third was still processed and saved
C8_Witness ==
    /\ LoopRanOut
    /\ events = <<"error", "no_content", "saved">>

\* every document but the one being written when the interruption came
KeptSince(before, inflight) ==
    \A n \in DOMAIN before \ {inflight} :
        n \in DOMAIN disk /\ disk[n] = before[n]

Terminated == mpc \in {"done", "no_posts", "interrupted", "error"}

\* C9: an interruption reaching the batch loop, inside an entry's pipeline
\* or between entries, stops the loop with no further entry visited, leaves
\* the documents already written as they are, and the counts reached before
\* it are returned and shown in the final summary.
C9_InterruptionKeepsCounts ==
    interrupt.set =>
        /\ visited = interrupt.visited
        /\ KeptSince(interrupt.disk, interrupt.inflight)
        /\ Terminated =>
              /\ returned = interrupt.counts
              /\ summary = interrupt.counts

\* the part of C9 the code keeps: nothing more is visited, nothing already
\* written is touched
InterruptionStopsTheLoop ==
    interrupt.set =>
        /\ visited = interrupt.visited
        /\ KeptSince(interrupt.disk, interrupt.inflight)
        /\ mpc = "done" => (returned = interrupt.counts /\ summary = interrupt.counts)

\* C10: a run that reached discovery ends with the summary printed and the
\* catalog metadata record written, whatever happened to the entries.
C10_RunEndsWithSummaryAndMetadata ==
    Terminated => (summary.set /\ metadata.written)


-----------------------------------------------------------------------------
(* Properties of the batch driver: the limit and the output directory *)

\* C11: when a limit is given, the number of entries visited (downloaded +
\* failed + skipped) never exceeds it, the entries skipped by resume included.
C11_VisitedWithinLimit ==
    args.limit_given =>
        /\ Len(visited) <= args.limit
        /\ Total <= args.limit

\* what the code does guarantee: a limit that is given and is not zero bounds
\* the entries visited, skipped ones included
PositiveLimitBounds ==
    Truthy(args) =>
        /\ Len(visited) <= args.limit
        /\ Total <= args.limit

PositiveLimitReached ==
    /\ Truthy(args)
    /\ Len(visited) = args.limit
    /\ skipped >= 1
    /\ Len(mposts) > args.limit
    /\ mpc = "done"


\* C14: during a batch run no document file of the output directory, present
\* before the run or written earlier in it, is overwritten by the document of
\* a different catalog entry.
C14_NoOverwriteByAnotherEntry ==
    [][\A n \in DOMAIN disk :
          n \in DOMAIN disk' => disk'[n].url = disk[n].url]_vars

\* what does hold: a document is only ever replaced by a document that
\* generate_filename gives the same name
OverwriteOnlyUnderTheSameName ==
    [][\A n \in DOMAIN disk :
          (n \in DOMAIN disk' /\ disk'[n] # disk[n]) =>
              /\ idx < Len(mposts)
              /\ generate_filename(mposts[idx + 1]) = n
              /\ disk'[n].url = mposts[idx + 1].url]_vars



-----------------------------------------------------------------------------
(* Properties of the MarkdownConverter *)

\* C15: for one MarkdownConverter, a source URL whose download has succeeded
\* once is never downloaded again; a later reference to the same normalized
\* URL takes the cached local filename and issues no download.
C15_State == \A u \in DOMAIN downloads : downloads[u] <= 1

C15_Step ==
    (AtImage /\ ~NoDownload(Src) /\ downloads[Normalize(Src)] >= 1) =>
        /\ Normalize(Src) \in DOMAIN _image_map
        /\ downloads' = downloads
        /\ _image_map' = _image_map
        /\ loop'.requests = loop.requests
        /\ loop'.images = Append(loop.images,
                                 Image(Normalize(Src), _image_map[Normalize(Src)]))

C15_DownloadedAtMostOnce == [](C15_State) /\ [][C15_Step]_vars

\* a download_images call that has resolved two references, one of them
\* protocol-relative, from the cache alone
C15_Witness ==
    /\ ipc = "update"
    /\ dl_enabled
    /\ loop.requests = 0
    /\ Len(loop.images) = 2
    /\ \E i \in 1..Len(content.html_content) : content.html_content[i] = <<"/", "/", "h", "/", "a">>
    /\ downloads[ImageA] = 1

RECURSIVE UrlsKept(_, _, _)
\* the source URLs of the img tags from the i-th on that have a src to
\* download and whose download did not fail
UrlsKept(html, lost, i) ==
    IF i > Len(html) THEN <<>>
    ELSE (IF NoDownload(html[i]) \/ i \in lost THEN <<>>
          ELSE <<Normalize(html[i])>>) \o UrlsKept(html, lost, i + 1)

AfterDownloadImages == ipc \in {"update", "write", "saved", "converted_again"}

\* C16: a failed image download does not raise; the image stays out of
\* content.images and out of the cache, every remaining image of the entry is
\* still processed, and the entry is persisted and counted.
C16_State ==
    /\ (AfterDownloadImages /\ dl_enabled) =>
          /\ loop.k = Len(content.html_content)
          /\ [i \in 1..Len(content.images) |-> content.images[i].url]
                 = UrlsKept(content.html_content, loop.failed, 1)
    /\ (ipc \in {"saved", "converted_again"}) => document.written

C16_Step ==
    (loop.failed # loop'.failed /\ loop.failed \subseteq loop'.failed) =>
        /\ _image_map' = _image_map
        /\ Normalize(Src) \notin DOMAIN _image_map'
        /\ loop'.images = loop.images
        /\ loop'.k = loop.k + 1
        /\ ipc' = "img"

C16_FailedImageIsLeftOut == [](C16_State) /\ [][C16_Step]_vars

\* an entry of two images written after the download of its first image
\* failed and the second was resolved
C16_Witness ==
    /\ ipc = "saved"
    /\ document.written
    /\ loop.failed = {1}
    /\ Len(content.html_content) = 2
    /\ Len(content.images) = 1
    /\ content.images[1].url \notin {Normalize(content.html_content[1])}

\* the local filename content.images holds for a source URL
LocalPathOf(url) ==
    (CHOOSE i \in {j \in 1..Len(content.images) : content.images[j].url = url} :
        TRUE)

Resolved(src) ==
    /\ ~NoDownload(src)
    /\ \E j \in 1..Len(content.images) : content.images[j].url = Normalize(src)

\* the page with the src of every resolved image rewritten, the rest as written
RewrittenHtml ==
    [i \in 1..Len(content.html_content) |->
        IF Resolved(content.html_content[i])
        THEN <<".", ".", "/", "i", "m", "a", "g", "e", "s", "/">>
                 \o content.images[LocalPathOf(Normalize(content.html_content[i]))]
                        .local_path
        ELSE content.html_content[i]]

\* C17: after download_images and update_image_paths every occurrence of the
\* source URL of a resolved image, as the page wrote it, has become
\* ../images/<local filename>, and no other text of the document has changed.
C17_EveryResolvedSourceRewritten ==
    (ipc \in {"write", "saved"} /\ dl_enabled) =>
        content.markdown_content
            = _add_frontmatter(content.post, markdownify(RewrittenHtml))

\* the pages for which the rewriting is as specified: every src is absolute
\* and no source URL is the beginning of another one
AbsoluteSourcesRewritten ==
    (/\ ipc \in {"write", "saved"}
     /\ dl_enabled
     /\ \A i \in 1..Len(content.html_content) :
           content.html_content[i] = Normalize(content.html_content[i])
     /\ ~(\E i, j \in 1..Len(content.html_content) :
             /\ content.html_content[i] = ImageA
             /\ content.html_content[j] = ImageAB)) =>
        content.markdown_content
            = _add_frontmatter(content.post, markdownify(RewrittenHtml))

AbsoluteSourceRewrittenWitness ==
    /\ ipc = "saved"
    /\ dl_enabled
    /\ content.html_content = <<ImageA, ImageA>>
    /\ Len(content.images) = 2

-----------------------------------------------------------------------------
(* Properties of the metadata header *)

\* the lines of the header
HeaderLines == split(header, "\n", Len(header))

\* the text of a line before its first colon
KeyOf(line) == SubSeq(line, 1, Find(line, ":") - 1)

\* the keys of the lines between the two --- lines, in order
KeysOf(lines) == [i \in 1..(Len(lines) - 3) |-> KeyOf(lines[i + 1])]

HeaderKeys == KeysOf(HeaderLines)

KeyOrder == <<<<"t", "i", "t", "l", "e">>, <<"s", "u", "b", "t", "i", "t", "l", "e">>, <<"a", "u", "t", "h", "o", "r">>, <<"d", "a", "t", "e">>, <<"u", "r", "l">>, <<"p", "a", "i", "d">>, <<"w", "o", "r", "d", "_", "c", "o", "u", "n", "t">>>>

\* the place of a key in KeyOrder
KeyRank(key) == CHOOSE j \in 1..Len(KeyOrder) : KeyOrder[j] = key

HasKey(keys, key) == \E i \in 1..Len(keys) : keys[i] = key

KeysAsSpecified(lines, keys) ==
    /\ Len(lines) >= 5
    /\ lines[1] = Dashes
    /\ lines[Len(lines) - 1] = Dashes
    /\ lines[Len(lines)] = <<>>
    /\ \A i \in 1..Len(keys) : \E j \in 1..Len(KeyOrder) : KeyOrder[j] = keys[i]
    /\ \A i \in 1..(Len(keys) - 1) : KeyRank(keys[i]) < KeyRank(keys[i + 1])
    /\ HasKey(keys, <<"t", "i", "t", "l", "e">>) /\ HasKey(keys, <<"u", "r", "l">>)
    /\ HasKey(keys, <<"s", "u", "b", "t", "i", "t", "l", "e">>) <=> hpost.subtitle # <<>>
    /\ HasKey(keys, <<"a", "u", "t", "h", "o", "r">>) <=> hpost.author # <<>>
    /\ HasKey(keys, <<"d", "a", "t", "e">>) <=> hpost.date.set
    /\ HasKey(keys, <<"p", "a", "i", "d">>) <=> hpost.is_paid
    /\ HasKey(keys, <<"w", "o", "r", "d", "_", "c", "o", "u", "n", "t">>) <=> hpost.word_count # 0
    /\ \A i \in 1..Len(keys) : keys[i] = <<"p", "a", "i", "d">> => lines[i + 1] = <<"p", "a", "i", "d", ":", " ", "t", "r", "u", "e">>

\* C19: the header lists its keys in the order title, subtitle, author, date,
\* url, paid, word_count between two --- lines; title and url are always
\* there; subtitle, author and date only when the Post has them; paid only as
\* true and only for a paid entry; word_count only when it is not zero.
C19_HeaderKeys ==
    hpc = "returned" =>
        LET lines == HeaderLines
            keys  == KeysOf(lines)
        IN  KeysAsSpecified(lines, keys)

\* the header of a paid, dated Post with subtitle, author and word count
C19_Witness ==
    /\ hpc = "returned"
    /\ HeaderKeys = KeyOrder
    /\ hpost.word_count = 12

C19_PartialWitness ==
    /\ hpc = "returned"
    /\ HeaderKeys = <<<<"t", "i", "t", "l", "e">>, <<"u", "r", "l">>>>
    /\ ~hpost.is_paid

RECURSIVE Flatten(_)
Flatten(ss) == IF ss = <<>> THEN <<>> ELSE Head(ss) \o Flatten(Tail(ss))

\* a text with each double quote written as \" and each newline as a space
QuotesAndNewlinesWritten(text) ==
    Flatten([i \in 1..Len(text) |->
                CASE text[i] = "\"" -> <<"\\", "\"">>
                  [] text[i] = "\n" -> <<" ">>
                  [] OTHER -> <<text[i]>>])

RECURSIVE ClosingQuote(_, _)
\* where a double-quoted value that starts at s[i] ends: the first quote
\* that no backslash escapes, 0 when there is none
ClosingQuote(s, i) ==
    IF i > Len(s) THEN 0
    ELSE IF s[i] = "\\" THEN ClosingQuote(s, i + 2)
         ELSE IF s[i] = "\"" THEN i
              ELSE ClosingQuote(s, i + 1)

\* the lines of the quoted keys the Post has
QuotedKeys ==
    <<[key |-> <<"t", "i", "t", "l", "e">>, text |-> hpost.title]>>
    \o (IF hpost.subtitle # <<>>
        THEN <<[key |-> <<"s", "u", "b", "t", "i", "t", "l", "e">>, text |-> hpost.subtitle]>> ELSE <<>>)
    \o (IF hpost.author # <<>>
        THEN <<[key |-> <<"a", "u", "t", "h", "o", "r">>, text |-> hpost.author]>> ELSE <<>>)

Holds(text, c) == \E i \in 1..Len(text) : text[i] = c

HasQuotesAndNewlines ==
    \E q, n \in {hpost.title, hpost.subtitle, hpost.author} :
        Holds(q, "\"") /\ Holds(n, "\n")

WellFormed(lines, quoted) ==
    /\ Len(lines) = Len(KeysOf(lines)) + 3
    /\ lines[1] = Dashes
    /\ lines[Len(lines) - 1] = Dashes
    /\ lines[Len(lines)] = <<>>
    /\ \A i \in 1..Len(quoted) :
          LET value == QuotesAndNewlinesWritten(quoted[i].text)
          IN  /\ lines[i + 1]
                    = quoted[i].key \o <<":", " ", "\"">> \o value \o <<"\"">>
              /\ ClosingQuote(value \o <<"\"">>, 1) = Len(value) + 1

HeaderWellFormed == LET lines == HeaderLines IN WellFormed(lines, QuotedKeys)

\* C20: for a Post whose title, subtitle or author holds double quotes and
\* newlines, each double quote is written as an escaped quote and each newline
\* as one space, every key takes exactly one line, and the header is a block
\* between two --- lines in which no quoted value ends early.
C20_HeaderOneLinePerKey ==
    (hpc = "returned" /\ HasQuotesAndNewlines) => HeaderWellFormed

\* what holds: the same for the Posts whose texts hold no backslash
HeaderWellFormedWithoutBackslash ==
    (/\ hpc = "returned"
     /\ HasQuotesAndNewlines
     /\ \A t \in {hpost.title, hpost.subtitle, hpost.author} : ~Holds(t, "\\"))
        => HeaderWellFormed

HeaderWithoutBackslashWitness ==
    /\ hpc = "returned"
    /\ hpost.title = <<"a", "\"", "\n">>
    /\ hpost.subtitle = <<"\"", "\n">>
    /\ hpost.author = <<"a">>

-----------------------------------------------------------------------------
(* Startup: config.py builds the global Config from the environment when   *)
(* the module is imported; main validates it, prepares the directories and *)
(* the browser, logs in and calls get_all_posts.                           *)

\* os.getenv(key) of a key that is not set
Unset == [set |-> FALSE, text |-> <<>>]

Setting(text) == [set |-> TRUE, text |-> text]

\* values of SUBSTACK_URL
UrlSettings ==
    {Unset, Setting(<<"/">>), Setting(<<"f", "t", "p", ":", "/", "/", "s">>), Setting(<<"h", "t", "t", "p", ":", "/", "/", "s">>),
     Setting(<<"h", "t", "t", "p", "s", ":", "/", "/", "s", "/">>), Setting(<<"h", "t", "t", "p", "x">>)}

\* values of START_DATE and END_DATE
DateSettings ==
    {Unset, Setting(<<>>), Setting(strftime(Naive(1))), Setting(strftime(Naive(2))),
     Setting(<<"0", "1", "/", "0", "3", "/", "2", "0", "2", "4">>)}

\* values of SUBSTACK_EMAIL and SUBSTACK_PASSWORD
SecretSettings == {Unset, Setting(<<>>), Setting(<<"a">>)}

Environments ==
    [SUBSTACK_URL : UrlSettings, USE_BROWSER_SESSION : BOOLEAN,
     SUBSTACK_EMAIL : SecretSettings, SUBSTACK_PASSWORD : SecretSettings,
     START_DATE : DateSettings, END_DATE : DateSettings]

\* str.rstrip(c)
rstrip(s, c) ==
    LET kept == {i \in 1..Len(s) : s[i] # c}
    IN  IF kept = {} THEN <<>> ELSE SubSeq(s, 1, Greatest(kept))

\* str.startswith(prefix)
startswith(s, prefix) == IsPrefix(prefix, s)

\* datetime.strptime(value, '%Y-%m-%d'): the dates of the model are the two
\* days strftime writes; every other text raises ValueError
strptime(value) ==
    IF \E t \in Times : value = strftime(Naive(t))
    THEN [ok |-> TRUE, date |-> Naive(CHOOSE t \in Times : value = strftime(Naive(t)))]
    ELSE [ok |-> FALSE, date |-> NoDate]

\* get_date(key) for the value os.getenv(key) gives: the date, and whether
\* the "Invalid date format" warning is printed
ParseDateSetting(value) ==
    IF ~value.set \/ value.text = <<>>
    THEN [date |-> NoDate, warned |-> FALSE]
    ELSE LET r == strptime(value.text)
         IN  IF r.ok THEN [date |-> r.date, warned |-> FALSE]
                     ELSE [date |-> NoDate, warned |-> TRUE]

\* Config(): the field defaults and __post_init__
Config(env) ==
    LET url == IF env.SUBSTACK_URL.set THEN env.SUBSTACK_URL.text ELSE <<>>
    IN  [substack_url        |-> IF url # <<>> THEN rstrip(url, "/") ELSE url,
         email               |-> env.SUBSTACK_EMAIL,
         password            |-> env.SUBSTACK_PASSWORD,
         use_browser_session |-> env.USE_BROWSER_SESSION,
         start_date          |-> ParseDateSetting(env.START_DATE).date,
         end_date            |-> ParseDateSetting(env.END_DATE).date,
         paid_only           |-> FALSE]

\* the warnings get_date prints while Config() is built
DateWarnings(env) ==
    (IF ParseDateSetting(env.START_DATE).warned
     THEN <<"Warning: Invalid date format for START_DATE">> ELSE <<>>)
    \o (IF ParseDateSetting(env.END_DATE).warned
        THEN <<"Warning: Invalid date format for END_DATE">> ELSE <<>>)

\* truth of an Optional[str]
Given(v) == v.set /\ v.text # <<>>

UrlRequired == "SUBSTACK_URL is required"
UrlScheme == "SUBSTACK_URL must start with http:// or https://"
AuthRequired == "Either USE_BROWSER_SESSION must be true, or SUBSTACK_EMAIL and SUBSTACK_PASSWORD must be set"

\* the url rule of validate
UrlErrors(c) ==
    IF c.substack_url = <<>> THEN <<UrlRequired>>
    ELSE IF ~startswith(c.substack_url, <<"h", "t", "t", "p">>) THEN <<UrlScheme>>
    ELSE <<>>

\* the authentication rule of validate
AuthErrors(c) ==
    IF ~c.use_browser_session /\ ~(Given(c.email) /\ Given(c.password))
    THEN <<AuthRequired>> ELSE <<>>

\* validate as it would be if it returned at the first violated rule
FirstError(c) ==
    IF UrlErrors(c) # <<>> THEN UrlErrors(c) ELSE AuthErrors(c)

\* the local errors of validate
Errors(c) == UrlErrors(c) \o AuthErrors(c)

\* main: if not config.validate(): sys.exit(1)
Validate ==
    /\ spc = "validate"
    /\ LET errors == Errors(config)
       IN  /\ printed' = printed \o errors
           /\ IF errors # <<>>
              THEN spc' = "exited" /\ exit_code' = 1
              ELSE spc' = "directories" /\ UNCHANGED exit_code
    /\ UNCHANGED <<config, dvars, gvars, bvars, nvars, ivars, hvars, pvars, lvars, avars, cvars, environ, trail>>

\* config.ensure_directories()
EnsureDirectories ==
    /\ spc = "directories"
    /\ trail' = Append(trail, "ensure_directories")
    /\ spc' = "browser"
    /\ UNCHANGED <<config, dvars, gvars, bvars, nvars, ivars, hvars, pvars, lvars, avars, cvars, environ, printed,
                   exit_code>>

\* browser = SubstackBrowser(config); if not browser.setup(): sys.exit(1)
BrowserSetup ==
    /\ spc = "browser"
    /\ trail' = Append(trail, "setup")
    /\ \E ok \in BOOLEAN :
          IF ok THEN spc' = "login" /\ UNCHANGED exit_code
                ELSE spc' = "exited" /\ exit_code' = 1
    /\ UNCHANGED <<config, dvars, gvars, bvars, nvars, ivars, hvars, pvars, lvars, avars, cvars, environ, printed>>

\* if not browser.login(): sys.exit(1)
Login ==
    /\ spc = "login"
    /\ trail' = Append(trail, "login")
    /\ \E ok \in BOOLEAN :
          IF ok THEN spc' = "discover" /\ UNCHANGED exit_code
                ELSE spc' = "exited" /\ exit_code' = 1
    /\ UNCHANGED <<config, dvars, gvars, bvars, nvars, ivars, hvars, pvars, lvars, avars, cvars, environ, printed>>

\* posts = scraper.get_all_posts(), with the filters of config
StartDiscovery ==
    /\ spc = "discover"
    /\ trail' = Append(trail, "get_all_posts")
    /\ spc' = "discovering"
    /\ UNCHANGED <<config, dvars, gvars, bvars, nvars, ivars, hvars, pvars, lvars, avars, cvars, environ, printed,
                   exit_code>>

\* the state main is entered in: config = Config() was built on import
InitStartup ==
    /\ environ \in Environments
    /\ config = Config(environ)
    /\ printed = DateWarnings(environ)
    /\ spc = "validate"
    /\ trail = <<>>
    /\ exit_code = -1
    /\ DiscoverIdle
    /\ FetchIdle
    /\ BatchIdle
    /\ NamesIdle
    /\ ImagesIdle
    /\ HeaderIdle
    /\ PostprocessIdle
    /\ LinksIdle
    /\ ListingIdle
    /\ ContentIdle

NextStartup ==
    \/ Validate
    \/ EnsureDirectories
    \/ BrowserSetup
    \/ Login
    \/ StartDiscovery

SpecStartup == InitStartup /\ [][NextStartup]_vars

-----------------------------------------------------------------------------
(* Properties of startup *)

\* an http or https URL
IsHttpUrl(url) == startswith(url, <<"h", "t", "t", "p", ":", "/", "/">>) \/ startswith(url, <<"h", "t", "t", "p", "s", ":", "/", "/">>)

\* the rules of startup that the environment violates, by their message
ViolatedRules(env) ==
    LET c == Config(env)
    IN  (IF c.substack_url = <<>> THEN {UrlRequired} ELSE {})
        \cup (IF c.substack_url # <<>> /\ ~IsHttpUrl(c.substack_url)
              THEN {UrlScheme} ELSE {})
        \cup (IF ~c.use_browser_session /\ ~(Given(c.email) /\ Given(c.password))
              THEN {AuthRequired} ELSE {})

Validated == spc # "validate"

\* C21: nothing is started before validation; once validate has run, every
\* violated rule (source URL missing, source URL not http/https, no session
\* reuse and no complete email/password pair) has its message printed, and
\* when a rule is violated main has exited with nothing started
C21_ValidationReportsEveryRule ==
    /\ ~Validated => trail = <<>>
    /\ Validated =>
          /\ ViolatedRules(environ) \subseteq Range(printed)
          /\ ViolatedRules(environ) # {} =>
                spc = "exited" /\ exit_code = 1 /\ trail = <<>>

\* the rules with the URL rule as validate tests it: a URL passes when its
\* first four characters are h, t, t, p
TestedRules(env) ==
    LET c == Config(env)
    IN  (IF c.substack_url = <<>> THEN {UrlRequired} ELSE {})
        \cup (IF c.substack_url # <<>> /\ SubSeq(c.substack_url, 1, 4) # <<"h", "t", "t", "p">>
              THEN {UrlScheme} ELSE {})
        \cup (IF ~c.use_browser_session /\ ~(Given(c.email) /\ Given(c.password))
              THEN {AuthRequired} ELSE {})

\* validate prints the message of every rule it tests and finds violated, all
\* of them, and main then exits with nothing started
ValidationReportsEveryTestedRule ==
    /\ ~Validated => trail = <<>>
    /\ Validated =>
          /\ TestedRules(environ) \subseteq Range(printed)
          /\ TestedRules(environ) # {} =>
                spc = "exited" /\ exit_code = 1 /\ trail = <<>>

\* two rules are violated at once and both messages are printed
BothRulesReportedWitness ==
    /\ Validated
    /\ {UrlScheme, AuthRequired} \subseteq Range(printed)
    /\ exit_code = 1

\* a source URL that is no http/https URL has passed validation and discovery
\* has been started
NonHttpUrlAccepted ==
    /\ ~IsHttpUrl(config.substack_url)
    /\ spc = "discovering"

Malformed(value) == ParseDateSetting(value).warned

\* C22: with a malformed START_DATE or END_DATE the run is stopped at startup:
\* nothing is started, and once validate has run main has exited
C22_MalformedDateIsFatal ==
    (Malformed(environ.START_DATE) \/ Malformed(environ.END_DATE)) =>
        /\ trail = <<>>
        /\ Validated => spc = "exited" /\ exit_code = 1

\* a malformed date filter is only warned about: the filter is dropped and
\* get_all_posts is called
MalformedDateDroppedWitness ==
    /\ Malformed(environ.START_DATE)
    /\ config.start_date = NoDate
    /\ spc = "discovering"
    /\ "get_all_posts" \in Range(trail)

-----------------------------------------------------------------------------
(* Properties of the batch driver: resume *)

\* the loop is about to take up an entry
AtEntry == mpc = "loop" /\ idx < Len(Truncated(mposts))

\* posts_dir holds the document of the entry under the entry's file name; at
\* the head of the loop such a document can only come from an earlier run
Persisted(e) ==
    LET n == generate_filename(e)
    IN  n \in DOMAIN disk /\ disk[n].url = e.url

\* the loop takes up the entry
EntryTakenUp == visited' # visited

C23_State ==
    (AtEntry /\ args.resume) =>
        (Persisted(mposts[idx + 1]) <=> mposts[idx + 1].slug \in existing)

C23_Step ==
    (AtEntry /\ args.resume /\ Persisted(mposts[idx + 1]) /\ EntryTakenUp) =>
        /\ skipped' = skipped + 1
        /\ idx' = idx + 1
        /\ events' = Append(events, "skipped")
        /\ disk' = disk

\* C23: with --resume, an entry is in the Resume Set exactly when its document
\* was persisted by an earlier run under the name generate_filename gives it,
\* and a persisted entry is counted as skipped with posts_dir left as it was
C23_ResumeRecognisesPersisted == [](C23_State) /\ [][C23_Step]_vars

\* a slug that generate_filename writes unchanged
PlainSlug(slug) == \A i \in 1..Len(slug) : slug[i] \in Letters \cup Digits \cup {"-"}

\* a dated entry with a plain slug whose document was persisted is recognised
\* and skipped
DatedPlainPersistedSkipped ==
    [][(/\ AtEntry /\ args.resume /\ Persisted(mposts[idx + 1])
        /\ mposts[idx + 1].date.set /\ PlainSlug(mposts[idx + 1].slug)
        /\ EntryTakenUp)
       => /\ mposts[idx + 1].slug \in existing
          /\ skipped' = skipped + 1
          /\ idx' = idx + 1
          /\ disk' = disk]_vars

DatedPlainSkippedWitness ==
    /\ args.resume
    /\ events # <<>>
    /\ events[Len(events)] = "skipped"
    /\ mposts[idx].date.set
    /\ Persisted(mposts[idx])

\* the persisted document of an undated entry is not recognised: the entry is
\* fetched again under --resume
PersistedFetchedAgain ==
    /\ args.resume
    /\ mpc = "fetch"
    /\ Persisted(mposts[idx + 1])

\* an entry without a persisted document is skipped
UnpersistedSkipped ==
    /\ args.resume
    /\ events # <<>>
    /\ events[Len(events)] = "skipped"
    /\ ~Persisted(mposts[idx])

-----------------------------------------------------------------------------
(* scraper.py: the url and slug of the Posts that _parse_api_post,         *)
(* _parse_archive_post and _get_posts_from_sitemap create                  *)

\* most Posts created in one behaviour
MaxMade == 2

\* "/p/"
PostPath == <<"/", "p", "/">>

\* data.get('slug', '') of the items of the listing pages
ApiSlugs == {<<"a">>, <<"b", "-", "c">>, <<>>}

\* href of the links of the archive page: to an article by path or in full,
\* with tracking parameters, to its comments, and to another page
ArchiveHrefs ==
    {<<"/", "p", "/", "a">>, <<"h", "t", "t", "p", "s", ":", "/", "/", "s", "/", "p", "/", "a">>, <<"/", "p", "/", "a", "?", "u">>, <<"/", "p", "/", "a", "/", "c">>, <<"/", "p", "/", "b", "-", "c">>, <<"/", "a">>}

\* loc of the url elements of sitemap.xml
SitemapLocs == {<<"h", "t", "t", "p", "s", ":", "/", "/", "s", "/", "p", "/", "a">>, <<"h", "t", "t", "p", "s", ":", "/", "/", "s", "/", "p", "/", "b", "-", "c">>, <<"h", "t", "t", "p", "s", ":", "/", "/", "s", "/", "a">>}

\* urljoin(base, href) for a base without path and an href that is absolute
\* or starts with /
JoinHref(base, href) ==
    IF startswith(href, <<"h", "t", "t", "p", ":", "/", "/">>) \/ startswith(href, <<"h", "t", "t", "p", "s", ":", "/", "/">>)
    THEN href
    ELSE urljoin(base, href)

\* '/p/' in text
HasPostPath(text) == FindText(text, PostPath) # 0

\* re.search(r'/p/([^/?]+)', url): group(1) of the leftmost match, '' when
\* nothing matches
SlugMatch(url) ==
    LET starts == {i \in 1..(Len(url) - 3) :
                      /\ SubSeq(url, i, i + 2) = PostPath
                      /\ url[i + 3] \notin {"/", "?"}}
    IN  IF starts = {} THEN <<>>
        ELSE LET from == Least(starts) + 3
                 stops == {j \in from..Len(url) : url[j] \in {"/", "?"}}
                 to == IF stops = {} THEN Len(url) ELSE Least(stops) - 1
             IN  SubSeq(url, from, to)

Made(strategy, url, slug) == [strategy |-> strategy, url |-> url, slug |-> slug]

\* _parse_api_post: slug = data.get('slug', ''); url = f"{substack_url}/p/{slug}"
_parse_api_post(slug) == Made("api", SubstackUrl \o PostPath \o slug, slug)

\* _parse_archive_post for the link it has found: [made, post]
_parse_archive_post(href) ==
    IF href = <<>> \/ ~HasPostPath(href)
    THEN [made |-> FALSE, post |-> Made("archive", <<>>, <<>>)]
    ELSE LET url == JoinHref(SubstackUrl, href)
         IN  [made |-> TRUE, post |-> Made("archive", url, SlugMatch(url))]

\* the body of the for loop of _get_posts_from_sitemap: [made, post]
SitemapPost(loc) ==
    IF ~HasPostPath(loc)
    THEN [made |-> FALSE, post |-> Made("sitemap", <<>>, <<>>)]
    ELSE [made |-> TRUE, post |-> Made("sitemap", loc, SlugMatch(loc))]

\* post = self._parse_api_post(item); if post: posts.append(post)
ParseApiPost ==
    /\ Len(made) < MaxMade
    /\ \E slug \in ApiSlugs : made' = Append(made, _parse_api_post(slug))
    /\ UNCHANGED <<config, dvars, gvars, bvars, nvars, ivars, hvars, pvars, svars, avars, cvars, dropped>>

\* post = self._parse_archive_post(elem, soup)
ParseArchivePost ==
    /\ Len(made) < MaxMade
    /\ \E href \in ArchiveHrefs :
          LET r == _parse_archive_post(href)
          IN  IF r.made
              THEN made' = Append(made, r.post) /\ UNCHANGED dropped
              ELSE dropped' = dropped \cup {href} /\ UNCHANGED made
    /\ UNCHANGED <<config, dvars, gvars, bvars, nvars, ivars, hvars, pvars, svars, avars, cvars>>

\* for url_elem in soup.find_all('url'): ... posts.append(Post(...))
ParseSitemapUrl ==
    /\ Len(made) < MaxMade
    /\ \E loc \in SitemapLocs :
          LET r == SitemapPost(loc)
          IN  IF r.made
              THEN made' = Append(made, r.post) /\ UNCHANGED dropped
              ELSE dropped' = dropped \cup {loc} /\ UNCHANGED made
    /\ UNCHANGED <<config, dvars, gvars, bvars, nvars, ivars, hvars, pvars, svars, avars, cvars>>

InitLinks ==
    /\ config = NoFilters
    /\ made = <<>>
    /\ dropped = {}
    /\ DiscoverIdle
    /\ FetchIdle
    /\ BatchIdle
    /\ NamesIdle
    /\ ImagesIdle
    /\ HeaderIdle
    /\ PostprocessIdle
    /\ StartupIdle
    /\ ListingIdle
    /\ ContentIdle

NextLinks ==
    \/ ParseApiPost
    \/ ParseArchivePost
    \/ ParseSitemapUrl

SpecLinks == InitLinks /\ [][NextLinks]_vars

-----------------------------------------------------------------------------
(* Properties of the url and slug of a Post *)

\* the path segment after the first /p/ of a URL: up to the next /, ? or #,
\* or to the end
SegmentAfterPostPath(url) ==
    LET at == FindText(url, PostPath)
        from == at + 3
        stops == {j \in from..Len(url) : url[j] \in {"/", "?", "#"}}
    IN  IF at = 0 THEN <<>>
        ELSE SubSeq(url, from, IF stops = {} THEN Len(url) ELSE Least(stops) - 1)

Consistent(post) ==
    /\ post.url = SubstackUrl \o PostPath \o post.slug
    /\ post.slug = SegmentAfterPostPath(post.url)

\* C24: every Post a discovery strategy creates has url = <substack_url>/p/<slug>
\* with slug the path segment after /p/ of that url, so that two Posts of the
\* same article (same slug) have the same url
C24_UrlAndSlugConsistent ==
    /\ \A i \in 1..Len(made) : Consistent(made[i])
    /\ \A i, j \in 1..Len(made) : made[i].slug = made[j].slug => made[i].url = made[j].url

\* the Posts of the listing pages and of the sitemap are consistent
ApiAndSitemapConsistent ==
    \A i \in 1..Len(made) :
        made[i].strategy \in {"api", "sitemap"} => Consistent(made[i])

ApiAndSitemapWitness ==
    /\ Len(made) = 2
    /\ made[1].strategy = "api" /\ made[2].strategy = "sitemap"
    /\ made[1] = [made[2] EXCEPT !.strategy = "api"]
    /\ made[1].slug # <<>>

\* one article has two Posts with different urls: from the listing pages, and
\* from an archive link with tracking parameters or to its comments
SameArticleTwoUrls ==
    \E i, j \in 1..Len(made) :
        /\ made[i].strategy = "api" /\ made[j].strategy = "archive"
        /\ made[i].slug = made[j].slug
        /\ made[i].url # made[j].url

-----------------------------------------------------------------------------
(* scraper.py: _get_posts_from_api, the paginated listing strategy *)

\* most full listing pages the source serves before a page that ends the
\* listing
MaxPages == 2

\* limit = 12
PageSize == 12

\* what get_page and the parsing make of a request: no page; a page that is
\* neither JSON nor holds a pre element; a pre element whose text is not
\* JSON; JSON, raw or inside a pre element, with size items of which those
\* at the indexes in bad give no Post
NoPage == [kind |-> "none", size |-> 0, bad |-> {}]
NotJson == [kind |-> "garbage", size |-> 0, bad |-> {}]
BadPre == [kind |-> "bad_pre", size |-> 0, bad |-> {}]

Data(kind, size, bad) == [kind |-> kind, size |-> size, bad |-> bad]

PageSizes == {0, 1, PageSize - 1, PageSize, PageSize + 1}

DataPages ==
    {Data(kind, size, bad) :
        kind \in {"json", "pre"}, size \in PageSizes, bad \in {{}, {1}}}

Pages == {NoPage, NotJson, BadPre} \cup {d \in DataPages : d.bad \subseteq 1..d.size}

\* for item in data: post = self._parse_api_post(item); if post: posts.append(post)
Parsed(pg, at) ==
    SelectSeq([i \in 1..pg.size |-> <<at, i>>], LAMBDA e : e[2] \notin pg.bad)

\* one pass of the while loop that ends at a break
Break(pg) ==
    /\ apc = "loop"
    /\ requests' = Append(requests, offset)
    /\ served' = Append(served, pg)
    /\ apc' = "break"
    /\ UNCHANGED <<offset, api_returned>>

\* if not page_source: break
PageFetchFailed ==
    /\ Break(NoPage)
    /\ UNCHANGED api_posts
    /\ UNCHANGED <<config, dvars, gvars, bvars, nvars, ivars, hvars, pvars, svars, lvars, cvars>>

\* json.loads fails and there is no pre element: break
PageNotJson ==
    /\ Break(NotJson)
    /\ UNCHANGED api_posts
    /\ UNCHANGED <<config, dvars, gvars, bvars, nvars, ivars, hvars, pvars, svars, lvars, cvars>>

\* json.loads(pre_tag.get_text()) raises JSONDecodeError: the outer except
\* prints "API parsing error" and breaks
PageParseError ==
    /\ Break(BadPre)
    /\ UNCHANGED api_posts
    /\ UNCHANGED <<config, dvars, gvars, bvars, nvars, ivars, hvars, pvars, svars, lvars, cvars>>

\* if not data: break
PageEmpty ==
    /\ \E pg \in Pages : pg.kind \in {"json", "pre"} /\ pg.size = 0 /\ Break(pg)
    /\ UNCHANGED api_posts
    /\ UNCHANGED <<config, dvars, gvars, bvars, nvars, ivars, hvars, pvars, svars, lvars, cvars>>

\* a last page that leaves the loop before its items are parsed
PageShortDropped ==
    /\ \E pg \in Pages :
          /\ pg.kind \in {"json", "pre"} /\ 0 < pg.size /\ pg.size < PageSize
          /\ Break(pg)
    /\ UNCHANGED api_posts
    /\ UNCHANGED <<config, dvars, gvars, bvars, nvars, ivars, hvars, pvars, svars, lvars, cvars>>

\* the items are parsed; if len(data) < limit: break
PageShort ==
    /\ \E pg \in Pages :
          /\ pg.kind \in {"json", "pre"} /\ 0 < pg.size /\ pg.size < PageSize
          /\ Break(pg)
          /\ api_posts' = api_posts \o Parsed(pg, offset)
    /\ UNCHANGED <<config, dvars, gvars, bvars, nvars, ivars, hvars, pvars, svars, lvars, cvars>>

\* the items are parsed; offset += limit; time.sleep(1); the loop goes on
PageFull ==
    /\ apc = "loop"
    /\ Len(requests) < MaxPages
    /\ \E pg \in Pages :
          /\ pg.kind \in {"json", "pre"} /\ pg.size >= PageSize
          /\ served' = Append(served, pg)
          /\ api_posts' = api_posts \o Parsed(pg, offset)
    /\ requests' = Append(requests, offset)
    /\ offset' = offset + PageSize
    /\ UNCHANGED <<apc, api_returned>>
    /\ UNCHANGED <<config, dvars, gvars, bvars, nvars, ivars, hvars, pvars, svars, lvars, cvars>>

\* return posts
ListingReturn ==
    /\ apc = "break"
    /\ api_returned' = [set |-> TRUE, posts |-> api_posts]
    /\ apc' = "returned"
    /\ UNCHANGED <<offset, api_posts, requests, served>>
    /\ UNCHANGED <<config, dvars, gvars, bvars, nvars, ivars, hvars, pvars, svars, lvars, cvars>>

\* posts = []; offset = 0; limit = 12
InitListing ==
    /\ config = NoFilters
    /\ apc = "loop"
    /\ offset = 0
    /\ api_posts = <<>>
    /\ requests = <<>>
    /\ served = <<>>
    /\ api_returned = [set |-> FALSE, posts |-> <<>>]
    /\ DiscoverIdle
    /\ FetchIdle
    /\ BatchIdle
    /\ NamesIdle
    /\ ImagesIdle
    /\ HeaderIdle
    /\ PostprocessIdle
    /\ StartupIdle
    /\ LinksIdle
    /\ ContentIdle

NextListing ==
    \/ PageFetchFailed
    \/ PageNotJson
    \/ PageParseError
    \/ PageEmpty
    \/ PageShort
    \/ PageFull
    \/ ListingReturn

\* the loop is one thread of control: while a pass is possible one is taken
SpecListing == InitListing /\ [][NextListing]_vars /\ WF_vars(NextListing)

-----------------------------------------------------------------------------
(* Properties of the paginated listing strategy *)

\* a page that ends the listing: the fetch failed, the payload cannot be
\* parsed, or it holds fewer than 12 items
Stopping(pg) ==
    \/ pg.kind \in {"none", "garbage", "bad_pre"}
    \/ pg.size < 12

RECURSIVE EntriesUpTo(_)
\* the entries parsed from the first k pages served, in order
EntriesUpTo(k) ==
    IF k = 0 THEN <<>>
    ELSE EntriesUpTo(k - 1)
            \o SelectSeq([i \in 1..served[k].size |-> <<12 * (k - 1), i>>],
                         LAMBDA e : e[2] \notin served[k].bad)

C25_State ==
    /\ Len(requests) = Len(served)
    /\ \A i \in 1..Len(requests) : requests[i] = 12 * (i - 1)
    /\ \A i \in 1..Len(served) :
          Stopping(served[i]) <=> (i = Len(served) /\ apc # "loop")
    /\ apc \in {"loop", "break", "returned"}
    /\ api_returned.set <=> apc = "returned"
    /\ api_returned.set => api_returned.posts = EntriesUpTo(Len(served))

\* C25: the listing strategy requests the offsets 0, 12, 24, ... in this
\* order, stops at the first page whose fetch fails, whose payload cannot be
\* parsed or that holds fewer than 12 items, returns every entry parsed up to
\* and including that page, and returns once the source serves such a page
C25_ListingStopsAndReturns == [](C25_State) /\ <>(apc = "returned")

\* two full pages and a short page with an item that gives no Post: the
\* entries of all three pages are returned
C25_Witness ==
    /\ api_returned.set
    /\ requests = <<0, 12, 24>>
    /\ served[3].size = 11 /\ served[3].bad = {1}
    /\ Len(api_returned.posts) = 12 + 13 + 10

\* the listing ended at a failed fetch after a full page
ListingEndedByFailedFetch ==
    /\ api_returned.set
    /\ requests = <<0, 12>>
    /\ served[2] = NoPage
    /\ Len(api_returned.posts) = 12

-----------------------------------------------------------------------------
(* scraper.py: get_post_content and _update_post_metadata *)

\* content_selectors, in the order they are tried
ContentSelectors ==
    <<".body.markup", ".post-content", "article .body", ".available-content",
      "[class*=post-content]", "article">>

\* the sets of selectors one page can match: an element of class post-content
\* matches [class*=post-content] too, and a .body inside an article needs an
\* article
Matchings ==
    {m \in SUBSET Range(ContentSelectors) :
        /\ ".post-content" \in m => "[class*=post-content]" \in m
        /\ "article .body" \in m => "article" \in m}

\* soup.select_one(...) found nothing
NoElement == [present |-> FALSE, text |-> <<>>]

Element(text) == [present |-> TRUE, text |-> text]

\* the title, subtitle and author element of a page: none, one without text,
\* one with text
TextElements == {NoElement, Element(<<" ">>), Element(<<" ", "n", " ">>)}

\* the date element of a page: none, or one whose datetime attribute or text
\* fromisoformat parses (to a naive or an aware datetime) or rejects
DateElements ==
    {[present |-> FALSE, date |-> NoDate], [present |-> TRUE, date |-> NoDate],
     [present |-> TRUE, date |-> Naive(2)], [present |-> TRUE, date |-> Aware(2)]}

\* BeautifulSoup(page_source, 'lxml'), as far as the selectors see it
Soups ==
    [matching : Matchings, title_elem : TextElements, subtitle_elem : TextElements,
     author_elem : TextElements, date_elem : DateElements]

\* get_page returned None
NoSoup ==
    [matching |-> {}, title_elem |-> NoElement, subtitle_elem |-> NoElement,
     author_elem |-> NoElement, date_elem |-> [present |-> FALSE, date |-> NoDate]]

\* the Posts get_post_content is called with
ContentPosts ==
    [url : {"u1"}, title : {<<"o">>}, subtitle : {Unset, Setting(<<"o">>)},
     author : {Unset, Setting(<<"o">>)}, date : {NoDate, Naive(1)}]

\* elem.get_text(strip=True) of an element whose only white space is at the
\* ends of its one text node
get_text_strip(elem) == strip(elem.text, " ")

\* the loop with the selectors tried to the end
LastMatch(matching) ==
    LET at == {i \in 1..Len(ContentSelectors) : ContentSelectors[i] \in matching}
    IN  IF at = {} THEN "None" ELSE ContentSelectors[Greatest(at)]

\* for selector in content_selectors: content_elem = soup.select_one(selector);
\* if content_elem: break
FirstMatch(matching) ==
    LET at == {i \in 1..Len(ContentSelectors) : ContentSelectors[i] \in matching}
    IN  IF at = {} THEN "None" ELSE ContentSelectors[Least(at)]

\* _update_post_metadata(post, soup): the Post afterwards
_update_post_metadata(post, soup) ==
    [post EXCEPT
        !.title    = IF soup.title_elem.present
                     THEN get_text_strip(soup.title_elem) ELSE @,
        !.subtitle = IF soup.subtitle_elem.present
                     THEN Setting(get_text_strip(soup.subtitle_elem)) ELSE @,
        !.author   = IF soup.author_elem.present
                     THEN Setting(get_text_strip(soup.author_elem)) ELSE @,
        !.date     = IF ~@.set /\ soup.date_elem.present /\ soup.date_elem.date.set
                     THEN soup.date_elem.date ELSE @]

\* page_source = self.browser.get_page(post.url); if not page_source: return None
ContentPageFailed ==
    /\ cpc = "fetch"
    /\ ~ccall.loaded
    /\ creturned' = [ok |-> FALSE]
    /\ cpc' = "returned"
    /\ UNCHANGED <<ccall, cpost, content_elem>>
    /\ UNCHANGED <<config, dvars, gvars, bvars, nvars, ivars, hvars, pvars, svars, lvars, avars>>

\* the selectors are tried in order
SelectContent ==
    /\ cpc = "fetch"
    /\ ccall.loaded
    /\ content_elem' = FirstMatch(ccall.soup.matching)
    /\ cpc' = "selected"
    /\ UNCHANGED <<ccall, cpost, creturned>>
    /\ UNCHANGED <<config, dvars, gvars, bvars, nvars, ivars, hvars, pvars, svars, lvars, avars>>

\* if not content_elem: return None
ContentNotFound ==
    /\ cpc = "selected"
    /\ content_elem = "None"
    /\ creturned' = [ok |-> FALSE]
    /\ cpc' = "returned"
    /\ UNCHANGED <<ccall, cpost, content_elem>>
    /\ UNCHANGED <<config, dvars, gvars, bvars, nvars, ivars, hvars, pvars, svars, lvars, avars>>

\* self._update_post_metadata(post, soup)
UpdatePostMetadata ==
    /\ cpc = "selected"
    /\ content_elem # "None"
    /\ cpost' = _update_post_metadata(cpost, ccall.soup)
    /\ cpc' = "updated"
    /\ UNCHANGED <<ccall, content_elem, creturned>>
    /\ UNCHANGED <<config, dvars, gvars, bvars, nvars, ivars, hvars, pvars, svars, lvars, avars>>

\* html_content = self._clean_html(content_elem); return PostContent(...)
ReturnContent ==
    /\ cpc = "updated"
    /\ creturned' = [ok |-> TRUE, post |-> cpost, html_content |-> content_elem]
    /\ cpc' = "returned"
    /\ UNCHANGED <<ccall, cpost, content_elem>>
    /\ UNCHANGED <<config, dvars, gvars, bvars, nvars, ivars, hvars, pvars, svars, lvars, avars>>

InitContent ==
    /\ config = NoFilters
    /\ cpc = "fetch"
    /\ \E post \in ContentPosts :
          /\ cpost = post
          /\ \/ ccall = [post |-> post, loaded |-> FALSE, soup |-> NoSoup]
             \/ \E soup \in Soups : ccall = [post |-> post, loaded |-> TRUE, soup |-> soup]
    /\ content_elem = "None"
    /\ creturned = <<>>
    /\ DiscoverIdle
    /\ FetchIdle
    /\ BatchIdle
    /\ NamesIdle
    /\ ImagesIdle
    /\ HeaderIdle
    /\ PostprocessIdle
    /\ StartupIdle
    /\ LinksIdle
    /\ ListingIdle

NextContent ==
    \/ ContentPageFailed
    \/ SelectContent
    \/ ContentNotFound
    \/ UpdatePostMetadata
    \/ ReturnContent

SpecContent == InitContent /\ [][NextContent]_vars

-----------------------------------------------------------------------------
(* Properties of get_post_content and _update_post_metadata *)

\* position of a selector in the fixed order
Rank(selector) ==
    CASE selector = ".body.markup" -> 1
      [] selector = ".post-content" -> 2
      [] selector = "article .body" -> 3
      [] selector = ".available-content" -> 4
      [] selector = "[class*=post-content]" -> 5
      [] selector = "article" -> 6

ContentReturned == cpc = "returned"

\* C26: get_post_content returns failure exactly when the page fetch gave
\* nothing or no selector matches, and then the Post is as it was passed in;
\* otherwise the content is that of the matching selector that comes first
\* in the fixed order
C26_FirstSelectorOrFailure ==
    ContentReturned =>
        /\ ~creturned.ok <=> (~ccall.loaded \/ ccall.soup.matching = {})
        /\ ~creturned.ok => cpost = ccall.post
        /\ creturned.ok =>
              /\ creturned.html_content \in ccall.soup.matching
              /\ \A other \in ccall.soup.matching :
                    Rank(creturned.html_content) <= Rank(other)

\* several selectors match and the first of them is used, the Post refined
C26_Witness ==
    /\ ContentReturned
    /\ creturned.ok
    /\ ccall.soup.matching = {".available-content", "article"}
    /\ creturned.html_content = ".available-content"
    /\ cpost # ccall.post

\* no selector matches a page that holds a title: failure, the Post untouched
NoRegionWitness ==
    /\ ContentReturned
    /\ ~creturned.ok
    /\ ccall.loaded
    /\ ccall.soup.title_elem = Element(<<" ", "n", " ">>)
    /\ cpost = ccall.post

\* a title that is not empty; a subtitle or author that is neither absent
\* nor empty
PopulatedText(text) == text # <<>>
PopulatedOptional(v) == v.set /\ v.text # <<>>

\* C27: _update_post_metadata never makes a populated title, subtitle or
\* author empty or absent, and never changes a date that is set
C27_RefinementNeverDowngrades ==
    [][/\ PopulatedText(cpost.title) => PopulatedText(cpost'.title)
       /\ PopulatedOptional(cpost.subtitle) => PopulatedOptional(cpost'.subtitle)
       /\ PopulatedOptional(cpost.author) => PopulatedOptional(cpost'.author)
       /\ cpost.date.set => cpost'.date = cpost.date]_cpost

\* a date that is set is kept, whatever date the page holds
DateNeverDowngraded ==
    [][cpost.date.set => cpost'.date = cpost.date]_cpost

DateKeptWitness ==
    /\ cpc = "updated"
    /\ ccall.post.date = Naive(1)
    /\ ccall.soup.date_elem.date = Naive(2)
    /\ cpost.date = Naive(1)

\* the page holds a title element without text: the title of the Post has
\* become empty
TitleEmptied ==
    /\ cpc = "updated"
    /\ PopulatedText(ccall.post.title)
    /\ cpost.title = <<>>

-----------------------------------------------------------------------------
(* converter.py: _postprocess_markdown, on texts written character by      *)
(* character                                                                *)

\* longest text _postprocess_markdown is given
MaxBody == 6

\* the characters at the given positions of a text, in order
Pick(s, keep) ==
    LET sel == SelectSeq([i \in 1..Len(s) |-> i], LAMBDA i : i \in keep)
    IN  [j \in 1..Len(sel) |-> s[sel[j]]]

\* re.sub(r'\n{3,}', '\n\n', md): of a run of newlines the first two stay
CollapseNewlines(s) ==
    Pick(s, {i \in 1..Len(s) :
                ~(s[i] = "\n" /\ i > 2 /\ s[i - 1] = "\n" /\ s[i - 2] = "\n")})

\* where a match of \n#+\s that starts at the first character ends, else 0
HeadingEnd(s) ==
    LET after == {j \in 2..Len(s) : s[j] # "#"}
    IN  IF s # <<>> /\ s[1] = "\n" /\ after # {} /\ Least(after) > 2
           /\ s[Least(after)] \in SpaceChars
        THEN Least(after) ELSE 0

\* where a match of \n\s*[-*]\s that starts at the first character ends,
\* else 0
ListItemEnd(s) ==
    LET after == {j \in 2..Len(s) : s[j] \notin SpaceChars}
    IN  IF s # <<>> /\ s[1] = "\n" /\ after # {} /\ s[Least(after)] \in {"-", "*"}
           /\ Least(after) < Len(s) /\ s[Least(after) + 1] \in SpaceChars
        THEN Least(after) + 1 ELSE 0

RECURSIVE BlankBeforeHeadings(_)
\* re.sub(r'(\n#+\s)', r'\n\1', md): the matches from left to right, none
\* overlapping another, each with a newline put in front
BlankBeforeHeadings(s) ==
    IF s = <<>> THEN <<>>
    ELSE LET e == HeadingEnd(s)
         IN  IF e # 0
             THEN <<"\n">> \o SubSeq(s, 1, e) \o BlankBeforeHeadings(SubSeq(s, e + 1, Len(s)))
             ELSE <<s[1]>> \o BlankBeforeHeadings(Tail(s))

RECURSIVE BlankBeforeListItems(_)
\* re.sub(r'(\n\s*[-*]\s)', r'\n\1', md)
BlankBeforeListItems(s) ==
    IF s = <<>> THEN <<>>
    ELSE LET e == ListItemEnd(s)
         IN  IF e # 0
             THEN <<"\n">> \o SubSeq(s, 1, e) \o BlankBeforeListItems(SubSeq(s, e + 1, Len(s)))
             ELSE <<s[1]>> \o BlankBeforeListItems(Tail(s))

\* md.replace(r'\[', '[').replace(r'\]', ']').replace(r'\(', '(').replace(r'\)', ')')
Unescape(s) ==
    replace(replace(replace(replace(s, <<"\\", "[">>, <<"[">>),
                            <<"\\", "]">>, <<"]">>),
                    <<"\\", "(">>, <<"(">>),
            <<"\\", ")">>, <<")">>)

\* first position of the run of whitespace that position i lies in
RunStart(s, i) ==
    LET before == {j \in 1..i : s[j] \notin SpaceChars}
    IN  IF before = {} THEN 1 ELSE Greatest(before) + 1

\* last position of the run of whitespace that position i lies in
RunEnd(s, i) ==
    LET behind == {j \in i..Len(s) : s[j] \notin SpaceChars}
    IN  IF behind = {} THEN Len(s) ELSE Least(behind) - 1

\* a text with the runs of whitespace at the given first positions turned
\* into one space each
SingleSpace(s, runs) ==
    Pick([i \in 1..Len(s) |-> IF i \in runs THEN " " ELSE s[i]],
         {i \in 1..Len(s) : s[i] \in SpaceChars /\ RunStart(s, i) \in runs => i \in runs})

\* re.sub(r'\*\*\s+', '** ', md)
SpaceAfterBold(s) ==
    SingleSpace(s, {i \in 3..Len(s) :
                       /\ s[i] \in SpaceChars /\ RunStart(s, i) = i
                       /\ s[i - 1] = "*" /\ s[i - 2] = "*"})

\* re.sub(r'\s+\*\*', ' **', md)
SpaceBeforeBold(s) ==
    SingleSpace(s, {i \in 1..Len(s) :
                       /\ s[i] \in SpaceChars /\ RunStart(s, i) = i
                       /\ RunEnd(s, i) + 2 <= Len(s)
                       /\ s[RunEnd(s, i) + 1] = "*" /\ s[RunEnd(s, i) + 2] = "*"})

\* '\n'.join(line.rstrip() for line in md.split('\n')): the whitespace at the
\* end of a line goes
RstripLines(s) ==
    Pick(s, {i \in 1..Len(s) :
                \/ s[i] = "\n"
                \/ \E j \in i..Len(s) :
                      /\ s[j] \notin SpaceChars
                      /\ \A k \in i..j : s[k] # "\n"})

\* md.strip() + '\n'
StripAndTerminate(s) ==
    LET kept == {i \in 1..Len(s) : s[i] \notin SpaceChars}
    IN  (IF kept = {} THEN <<>> ELSE SubSeq(s, Least(kept), Greatest(kept))) \o <<"\n">>

_postprocess_markdown(text) ==
    StripAndTerminate(RstripLines(SpaceBeforeBold(SpaceAfterBold(Unescape(
        BlankBeforeListItems(BlankBeforeHeadings(CollapseNewlines(text))))))))

\* the characters of the texts markdownify hands over
BodyChars == {"a", "\n", " ", "#", "-"}

BodyTexts == UNION {[1..k -> BodyChars] : k \in 0..MaxBody}

\* md = self._postprocess_markdown(markdown)
PostprocessMarkdown ==
    /\ ppc = "call"
    /\ processed' = _postprocess_markdown(markdown)
    /\ ppc' = "returned"
    /\ UNCHANGED <<config, dvars, gvars, bvars, nvars, ivars, hvars, svars, lvars, avars,
                   cvars, markdown>>

InitPostprocess ==
    /\ config = NoFilters
    /\ ppc = "call"
    /\ markdown \in BodyTexts
    /\ processed = <<>>
    /\ DiscoverIdle
    /\ FetchIdle
    /\ BatchIdle
    /\ NamesIdle
    /\ ImagesIdle
    /\ HeaderIdle
    /\ StartupIdle
    /\ LinksIdle
    /\ ListingIdle
    /\ ContentIdle

NextPostprocess == PostprocessMarkdown

SpecPostprocess == InitPostprocess /\ [][NextPostprocess]_vars

-----------------------------------------------------------------------------
(* Properties of _postprocess_markdown *)

\* three newlines in a row: more than one blank line
TripleNewline(s) ==
    \E i \in 1..(Len(s) - 2) : s[i] = "\n" /\ s[i + 1] = "\n" /\ s[i + 2] = "\n"

\* C28: the text _postprocess_markdown returns holds no three consecutive
\* newlines, before heading lines and list-item lines included
C28_NoRunOfBlankLines ==
    ppc = "returned" => ~TripleNewline(processed)

\* a text of words and newlines alone comes back without a run of blank lines
PlainTextCollapsed ==
    (ppc = "returned" /\ Range(markdown) \subseteq {"a", "\n"}) => ~TripleNewline(processed)

PlainTextCollapsedWitness ==
    /\ ppc = "returned"
    /\ markdown = <<"a", "\n", "\n", "\n", "\n", "a">>
    /\ processed = <<"a", "\n", "\n", "a", "\n">>

\* a heading that has its blank line is given a second one
HeadingAfterTwoBlankLines ==
    /\ ppc = "returned"
    /\ markdown = <<"a", "\n", "\n", "#", " ", "a">>
    /\ processed = <<"a", "\n", "\n", "\n", "#", " ", "a", "\n">>

\* a list item that has its blank line is given a second one
ListItemAfterTwoBlankLines ==
    /\ ppc = "returned"
    /\ markdown = <<"a", "\n", "\n", "-", " ", "a">>
    /\ processed = <<"a", "\n", "\n", "\n", "-", " ", "a", "\n">>

\* a line that holds only a space becomes a blank line after the collapse
SpaceLinesBecomeBlank ==
    /\ ppc = "returned"
    /\ markdown = <<"a", "\n", " ", "\n", "\n", "a">>
    /\ TripleNewline(processed)

-----------------------------------------------------------------------------
(* Properties of the catalog metadata record *)

\* datetime.fromisoformat(text) for the texts isoformat writes: a text that
\* ends in an offset gives an aware datetime
fromisoformat(text) ==
    LET aware == Len(text) > 6 /\ SubSeq(text, Len(text) - 5, Len(text)) = <<"+", "0", "0", ":", "0", "0">>
        day == strptime(SubSeq(text, 1, 10)).date
    IN  IF aware THEN Aware(day.t) ELSE Naive(day.t)

\* Post.from_dict: a date that is a non-empty string is parsed, cls(**data)
from_dict(data) ==
    [data EXCEPT !.date = IF @.json = "string" /\ @.text # <<>>
                          THEN fromisoformat(@.text) ELSE NoDate]

\* the dates of the entries, as the record holds them
RecordedDates == [i \in 1..Len(metadata.posts) |-> from_dict(metadata.posts[i]).date]

\* C29: the entries of the metadata record have pairwise different URLs and
\* are in descending date order with the undated entries last
C29_RecordKeepsCatalogInvariant ==
    metadata.written =>
        /\ \A i, j \in 1..Len(metadata.posts) :
              i # j => metadata.posts[i].url # metadata.posts[j].url
        /\ \A i, j \in 1..Len(RecordedDates) :
              i < j =>
                 /\ RecordedDates[j].set => RecordedDates[i].set
                 /\ RecordedDates[j].set => RecordedDates[i].t >= RecordedDates[j].t

\* the entries of the metadata record have pairwise different URLs
RecordUrlsUnique ==
    metadata.written =>
        \A i, j \in 1..Len(metadata.posts) :
            i # j => metadata.posts[i].url # metadata.posts[j].url

RecordUrlsUniqueWitness ==
    /\ metadata.written
    /\ Len(metadata.posts) = 3

\* an undated entry at the end of the catalog was given a date by its page
\* that is later than the date of the entry before it
EnrichedOutOfOrder ==
    /\ metadata.written
    /\ Len(metadata.posts) = 2
    /\ RecordedDates[1] = Naive(1)
    /\ RecordedDates[2] = Naive(2)

\* the text of a date: YYYY-MM-DDTHH:MM:SS, with an offset when aware
IsoText(text) ==
    /\ Len(text) \in {19, 25}
    /\ text[5] = "-" /\ text[8] = "-" /\ text[11] = "T"
    /\ text[14] = ":" /\ text[17] = ":"
    /\ \A i \in (1..19) \ {5, 8, 11, 14, 17} : text[i] \in Digits

\* C30: the metadata record holds every entry of the catalog in catalog
\* order, whatever the limit, resume and the outcomes were; total_posts is
\* the number of its entries; each entry has all fields of its Post, a date
\* that is set as ISO text, a date that is absent as null; and from_dict
\* gives the Post back
C30_RecordHoldsCatalog ==
    metadata.written =>
        /\ metadata.total_posts = Len(metadata.posts)
        /\ Len(metadata.posts) = Len(mposts)
        /\ \A i \in 1..Len(mposts) :
              LET data == metadata.posts[i]
                  post == mposts[i]
              IN  /\ DOMAIN data = DOMAIN post
                  /\ \A f \in DOMAIN post \ {"date"} : data[f] = post[f]
                  /\ post.date.set => data.date.json = "string" /\ IsoText(data.date.text)
                  /\ ~post.date.set => data.date = Null
                  /\ from_dict(data) = post

\* a run with a limit of one that failed on its one entry: the record holds
\* both entries of the catalog, one date as text and one absent date
C30_Witness ==
    /\ metadata.written
    /\ Truthy(args) /\ args.limit = 1
    /\ events = <<"no_content">>
    /\ Len(metadata.posts) = 2
    /\ metadata.total_posts = 2
    /\ mposts[1].date = Naive(2)
    /\ metadata.posts[1].date.text = strftime(Naive(2)) \o <<"T", "0", "0", ":", "0", "0", ":", "0", "0">>
    /\ metadata.posts[2].date = Null

\* an aware date is recorded with its offset
AwareDateRecorded ==
    /\ metadata.written
    /\ mposts[1].date = Aware(1)
    /\ metadata.posts[1].date.text =
          strftime(Naive(1)) \o <<"T", "0", "0", ":", "0", "0", ":", "0", "0", "+", "0", "0", ":", "0", "0">>

=============================================================================
